---- MODULE Spec2Model ----
(***************************************************************************)
(* Model of the diarized /transcribe handler (src/unnamed/part_002):       *)
(* request validation, the encoding fallback loop, the word loop that      *)
(* groups recognised words into per-speaker segments, the merge pass over  *)
(* short segments, and the response.                                       *)
(*                                                                         *)
(* Text is a sequence of one-character strings.  A JavaScript value that   *)
(* is undefined or null is None (the code never tells the two apart: it    *)
(* tests `=== undefined || === null` or uses `||`); a present value v is   *)
(* Some(v).                                                                *)
(***************************************************************************)
EXTENDS Integers, Sequences, FiniteSets, TLC

\* ------------------------------------------------------------------------
\* Bounds of the model
\* ------------------------------------------------------------------------

\* Longest word sequence of the exhaustive family of upstream responses.
MaxWords == 3

\* Most same-speaker runs in the family of responses built from runs.
MaxRuns == 3

\* Most results in a response of the family that varies the response shape.
MaxResults == 2

\* ------------------------------------------------------------------------
\* Values
\* ------------------------------------------------------------------------

None == <<>>

Some(v) == <<v>>

\* JavaScript truthiness of an optional value (`x || y`).
Truthy(v) == v # None

\* `a || b`
OrElse(a, b) == IF Truthy(a) THEN a ELSE b

SP == " "

\* ------------------------------------------------------------------------
\* String functions used by the handler
\* ------------------------------------------------------------------------

RECURSIVE TrimStart(_)
\* String.prototype.trim, leading part.
TrimStart(s) ==
    IF s # <<>> /\ Head(s) = SP THEN TrimStart(Tail(s)) ELSE s

RECURSIVE TrimEnd(_)
\* String.prototype.trim, trailing part.
TrimEnd(s) ==
    IF s # <<>> /\ s[Len(s)] = SP THEN TrimEnd(SubSeq(s, 1, Len(s) - 1)) ELSE s

\* String.prototype.trim
Trim(s) == TrimEnd(TrimStart(s))

RECURSIVE Join(_, _)
\* Array.prototype.join(sep): the elements with sep between neighbours.
Join(texts, sep) ==
    IF texts = <<>> THEN <<>>
    ELSE IF Len(texts) = 1 THEN texts[1]
    ELSE texts[1] \o sep \o Join(Tail(texts), sep)

RECURSIVE SplitOn(_, _, _)
\* String.prototype.split(ch): the pieces between occurrences of ch, empty
\* pieces included; piece is the piece being read.
SplitOn(s, ch, piece) ==
    IF s = <<>> THEN <<piece>>
    ELSE IF Head(s) = ch THEN <<piece>> \o SplitOn(Tail(s), ch, <<>>)
    ELSE SplitOn(Tail(s), ch, Append(piece, Head(s)))

\* current.transcript.split(' ')
Split(s, ch) == SplitOn(s, ch, <<>>)

\* parseInt of a speaker tag: the tag arrives as a JSON integer, and
\* parseInt of an integer is that integer.
ParseInt(t) == t

\* `Speaker ${tag}`: the prefix followed by the decimal digits of the tag.
SpeakerLabel(tag) == <<"Speaker ", tag>>

\* ------------------------------------------------------------------------
\* Upstream responses the model enumerates
\* ------------------------------------------------------------------------

\* Word texts: empty, whitespace only, and two distinct tokens.
Texts == {<<>>, <<SP>>, <<"a">>, <<"b">>}

\* speakerTag of a word: absent, or one of two speakers.
Tags == {None, Some(1), Some(2)}

BareWords == [word : Texts, speakerTag : Tags]

BareSeqs(n) == UNION {[1..k -> BareWords] : k \in 0..n}

\* The words ws with startTime/endTime on the positions timedAt names; the
\* times of position p are the distinct values 2p-1 and 2p.
Stamp(ws, timedAt) ==
    [p \in 1..Len(ws) |->
        [word |-> ws[p].word,
         speakerTag |-> ws[p].speakerTag,
         startTime |-> IF p \in timedAt THEN Some(2 * p - 1) ELSE None,
         endTime |-> IF p \in timedAt THEN Some(2 * p) ELSE None]]

\* Family 1: every word sequence of up to MaxWords words, with times on all
\* words or on none.
ExhaustiveWordSeqs ==
    {Stamp(ws, IF timed THEN 1..Len(ws) ELSE {}) :
        ws \in BareSeqs(MaxWords), timed \in BOOLEAN}

\* Family 2: up to MaxRuns runs of words, neighbouring runs separated by one
\* whitespace-only word of speaker 2 (whose segment the word loop discards,
\* which leaves utterances of the same speaker next to each other for the
\* merge pass).  A run has one, two or three tokens, or two tokens around
\* an empty word.  Either the runs vary in kind and speaker (1 or 3) and
\* carry no times, or they are runs of speaker 1 that vary in length and in
\* whether their words carry times.
RunKinds == {"one", "two", "gap", "three"}

RunSpeakers == {1, 3}

TimedRunKinds == {"one", "three"}

RunDescs ==
    UNION {[1..k -> [kind : RunKinds, timed : {FALSE}, speaker : RunSpeakers]]
           \cup [1..k -> [kind : TimedRunKinds, timed : BOOLEAN, speaker : {1}]] :
              k \in 1..MaxRuns}

RunTexts(kind, x, y) ==
    CASE kind = "one" -> <<x>>
      [] kind = "two" -> <<x, y>>
      [] kind = "gap" -> <<x, <<>>, y>>
      [] kind = "three" -> <<x, y, x>>

RunOf(desc, r) ==
    LET x == IF r % 2 = 1 THEN <<"a">> ELSE <<"b">>
        y == IF r % 2 = 1 THEN <<"b">> ELSE <<"a">>
        texts == RunTexts(desc[r].kind, x, y)
    IN  [p \in 1..Len(texts) |->
            [word |-> texts[p], speakerTag |-> Some(desc[r].speaker),
             timed |-> desc[r].timed]]

Separator == [word |-> <<SP>>, speakerTag |-> Some(2), timed |-> FALSE]

RECURSIVE RunsFrom(_, _)
RunsFrom(desc, r) ==
    IF r > Len(desc) THEN <<>>
    ELSE IF r = Len(desc) THEN RunOf(desc, r)
    ELSE RunOf(desc, r) \o <<Separator>> \o RunsFrom(desc, r + 1)

RunWordSeq(desc) ==
    LET ws == RunsFrom(desc, 1)
    IN  Stamp(ws, {p \in 1..Len(ws) : ws[p].timed})

RunWordSeqs == {RunWordSeq(desc) : desc \in RunDescs}

\* A response whose data.results is one result carrying the words ws.
OneResult(ws) ==
    [hasResults |-> TRUE, results |-> <<[hasWords |-> TRUE, words |-> ws]>>]

\* Family 3: the shapes of a response.  data.results is missing, or is a
\* list of up to MaxResults results, each without words, with an empty word
\* list, or with one word.
NoResultsField == [hasResults |-> FALSE, results |-> <<>>]

ShapeWords ==
    {Stamp(<<[word |-> <<"a">>, speakerTag |-> Some(1)]>>, {}),
     Stamp(<<[word |-> <<"b">>, speakerTag |-> Some(2)]>>, {1})}

ShapeResults ==
    {[hasWords |-> FALSE, words |-> <<>>], [hasWords |-> TRUE, words |-> <<>>]}
    \cup {[hasWords |-> TRUE, words |-> ws] : ws \in ShapeWords}

ShapeResponses ==
    {NoResultsField} \cup
    {[hasResults |-> TRUE, results |-> rs] :
        rs \in UNION {[1..k -> ShapeResults] : k \in 0..MaxResults}}

Responses ==
    {OneResult(ws) : ws \in ExhaustiveWordSeqs \cup RunWordSeqs} \cup ShapeResponses

\* Failures of axios.post: an HTTP error response, or no response at all.
UpstreamErrors ==
    {[hasResponse |-> TRUE, data |-> "bad request", message |-> "status 400"],
     [hasResponse |-> FALSE, data |-> "", message |-> "timeout"]}

\* ------------------------------------------------------------------------
\* State
\* ------------------------------------------------------------------------

VARIABLES
    apiKey,              \* GOOGLE_API_KEY is set
    pc,                  \* position of the handler
    attempt,             \* index in audioConfigs of the request in flight
    finalResponse,       \* None or Some(response)
    lastError,           \* None or Some(error)
    words,               \* the collected words
    i,                   \* loop index (1-based) of the word loop / merge pass
    currentSpeakerTag,   \* None (null) or Some(tag)
    currentSegment,      \* [words, startTime, endTime]
    transcriptBySpeaker, \* utterances with times, before and during the merge
    mergedTranscript,    \* utterances of the response
    res                  \* None or Some(the HTTP response sent)

\* retryRequest (src/routes/preScreening.js, src/routes/transcriptAnalysis.js
\* and the prescription router).
VARIABLES
    helper,              \* the file whose retryRequest runs, "none" before a call
    rpc,                 \* position of retryRequest
    retries,             \* argument retries of the innermost call
    initialDelay,        \* argument initialDelay of the innermost call
    posts,               \* number of axios.post calls made
    caught,              \* None or Some(error) of the catch block entered
    delay,               \* milliseconds of the timer awaited, 0 when none
    returned,            \* None or Some(response) returned to the caller
    thrown               \* None or Some(error) thrown to the caller

retryVars ==
    <<helper, rpc, retries, initialDelay, posts, caught, delay, returned, thrown>>

\* The plain /transcribe handler of src/routes/speechToText.js.
VARIABLES
    plainPc,             \* position of the handler
    plainAttempt,        \* index in plainAudioConfigs of the request in flight
    posted,              \* the encodings requested so far, in order
    plainResponse,       \* None or Some(response): the local `response`
    plainLastError,      \* None or Some(error)
    emitted,             \* the 'transcript' socket events emitted, in order
    plainRes             \* None or Some(the HTTP response sent)

plainVars ==
    <<plainPc, plainAttempt, posted, plainResponse, plainLastError, emitted, plainRes>>

\* Two invocations of the diarized /transcribe handler in flight at the same
\* time.  Each variable maps a request (or, for the locals that live
\* across an await, a frame) to its value.
VARIABLES
    cRequest,            \* request -> None or Some(body received)
    cPc,                 \* request -> position of its invocation
    cAttempt,            \* request -> index in audioConfigs of its request in flight
    cReceived,           \* request -> the upstream outcomes it has received
    cFinalResponse,      \* frame -> finalResponse
    cLastError,          \* frame -> lastError
    cRes                 \* request -> None or Some(the HTTP response sent)

concVars ==
    <<cRequest, cPc, cAttempt, cReceived, cFinalResponse, cLastError, cRes>>

\* One request to a handler that forwards to an external API (the speech,
\* translation, transcript, prescription and pre-screening routers).
VARIABLES
    proxyRoute,    \* the route requested, "none" before the request
    proxyBody,     \* the body fields the request carries
    proxyKey,      \* the API key the route reads is set (drawn with the request)
    proxyPc,       \* position of the handler
    proxySent,     \* number of upstream requests sent
    proxyEmitted,  \* number of socket events emitted
    proxyRes       \* None or Some(status of the HTTP response sent)

proxyVars ==
    <<proxyRoute, proxyBody, proxyKey, proxyPc, proxySent, proxyEmitted, proxyRes>>

\* The /detect-language handler of src/routes/speechToText.js, after its
\* validation.
VARIABLES
    detectPc,        \* position of the handler
    detectConfig,    \* index in detectAudioConfigs of the loop's current config
    detectSent,      \* number of upstream requests sent
    detectReceived,  \* the <<languageCode, confidence>> of the responses that carried a language, in order
    bestConfidence,  \* hundredths
    bestLanguage,    \* None (null) or Some(languageCode)
    bestTranscript,  \* text
    detectRes        \* None or Some(the HTTP response sent)

detectVars ==
    <<detectPc, detectConfig, detectSent, detectReceived, bestConfidence, bestLanguage, bestTranscript, detectRes>>

\* The database connection of src/index.js: connectDb and the pool's
\* 'error' handler.
VARIABLES
    isConnected,      \* the module's flag
    dbPool,           \* None (null) or Some(state of the pool the variable refers to)
    connectPc,        \* position of the connectDb invocation, "idle" when none runs
    connectTimers,    \* number of pending setTimeout(() => connectDb())
    dbReachable,      \* the database accepts connections (environment)
    connectFailures   \* attempts that failed so far, counted up to MaxFailures

connVars ==
    <<isConnected, dbPool, connectPc, connectTimers, dbReachable, connectFailures>>

\* The users table and the requests to /api/signup, /api/login and
\* /api/get-doctor-acs-id of src/index.js.  Each request variable maps a
\* request to its value.
VARIABLES
    users,          \* the rows of the users table, in id order
    acsIdentities,  \* number of ACS identities created
    reqRoute,       \* request -> the route requested, "none" before it arrives
    reqBody,        \* request -> req.body
    reqPc,          \* request -> position of its handler
    reqQueries,     \* request -> number of database queries it issued
    reqAcsUserId,   \* request -> None or Some(acsUserId) of the identity it created
    reqError,       \* request -> None or Some(error caught by the handler)
    reqRes          \* request -> None or Some(the HTTP response sent)

userVars ==
    <<users, acsIdentities, reqRoute, reqBody, reqPc, reqQueries, reqAcsUserId, reqError, reqRes>>

\* The variables of the diarized /transcribe handler.
transcribeVars ==
    <<apiKey, pc, attempt, finalResponse, lastError, words, i, currentSpeakerTag,
      currentSegment, transcriptBySpeaker, mergedTranscript, res>>

\* What a step of the diarized handler leaves alone.
outsideTranscribe == <<retryVars, plainVars, concVars,
    proxyVars,
    detectVars,
    connVars,
    userVars>>

\* What a step of retryRequest leaves alone.
outsideRetry == <<transcribeVars, plainVars, concVars,
    proxyVars,
    detectVars,
    connVars,
    userVars>>

\* What a step of the plain handler leaves alone.
outsidePlain == <<transcribeVars, retryVars, concVars,
    proxyVars,
    detectVars,
    connVars,
    userVars>>

\* What a step of the two concurrent invocations leaves alone.
outsideConc == <<pc, attempt, finalResponse, lastError, words, i, currentSpeakerTag,
                 currentSegment, transcriptBySpeaker, mergedTranscript, res,
                 retryVars, plainVars,
    proxyVars,
    detectVars,
    connVars,
    userVars>>

\* What a step of a forwarding handler leaves alone.
outsideProxy == <<transcribeVars, retryVars, plainVars, concVars,
    detectVars,
    connVars,
    userVars>>

\* What a step of /detect-language leaves alone.
outsideDetect == <<transcribeVars, retryVars, plainVars, concVars, proxyVars,
    connVars,
    userVars>>

\* What a step of connectDb leaves alone.
outsideConn == <<transcribeVars, retryVars, plainVars, concVars, proxyVars, detectVars,
    userVars>>

\* What a step of a signup, login or doctor request leaves alone.
outsideUser == <<transcribeVars, retryVars, plainVars, concVars, proxyVars, detectVars, connVars>>

vars == <<transcribeVars, retryVars, plainVars, concVars,
    proxyVars,
    detectVars,
    connVars,
    userVars>>

\* The requests in flight together.
Requests == {1, 2}

\* req.body before a request arrives.
NoBody ==
    [name |-> FALSE, email |-> None, password |-> None, userType |-> None,
     specialization |-> FALSE, hospital |-> FALSE]

\* audioConfigs: the encodings tried, in order.
audioConfigs == <<"WEBM_OPUS", "LINEAR16">>

EmptySegment == [words |-> <<>>, startTime |-> None, endTime |-> None]

Init ==
    /\ apiKey \in BOOLEAN
    /\ pc = "idle"
    /\ attempt = 0
    /\ finalResponse = None
    /\ lastError = None
    /\ words = <<>>
    /\ i = 0
    /\ currentSpeakerTag = None
    /\ currentSegment = EmptySegment
    /\ transcriptBySpeaker = <<>>
    /\ mergedTranscript = <<>>
    /\ res = None
    /\ helper = "none"
    /\ rpc = "idle"
    /\ retries = 0
    /\ initialDelay = 0
    /\ posts = 0
    /\ caught = None
    /\ delay = 0
    /\ returned = None
    /\ thrown = None
    /\ plainPc = "idle"
    /\ plainAttempt = 0
    /\ posted = <<>>
    /\ plainResponse = None
    /\ plainLastError = None
    /\ emitted = <<>>
    /\ plainRes = None
    /\ cRequest = [q \in Requests |-> None]
    /\ cPc = [q \in Requests |-> "idle"]
    /\ cAttempt = [q \in Requests |-> 0]
    /\ cReceived = [q \in Requests |-> <<>>]
    /\ cFinalResponse = [q \in Requests |-> None]
    /\ cLastError = [q \in Requests |-> None]
    /\ cRes = [q \in Requests |-> None]
    /\ proxyRoute = "none"
    /\ proxyBody = {}
    /\ proxyKey = FALSE
    /\ proxyPc = "idle"
    /\ proxySent = 0
    /\ proxyEmitted = 0
    /\ proxyRes = None
    /\ detectPc = "idle"
    /\ detectConfig = 0
    /\ detectSent = 0
    /\ detectReceived = <<>>
    /\ bestConfidence = 0
    /\ bestLanguage = None
    /\ bestTranscript = ""
    /\ detectRes = None
    /\ isConnected = FALSE
    /\ dbPool = Some("connecting")
    /\ connectPc = "connecting"
    /\ connectTimers = 0
    /\ dbReachable = TRUE
    /\ connectFailures = 0
    /\ users = <<>>
    /\ acsIdentities = 0
    /\ reqRoute = [q \in Requests |-> "none"]
    /\ reqBody = [q \in Requests |-> NoBody]
    /\ reqPc = [q \in Requests |-> "idle"]
    /\ reqQueries = [q \in Requests |-> 0]
    /\ reqAcsUserId = [q \in Requests |-> None]
    /\ reqError = [q \in Requests |-> None]
    /\ reqRes = [q \in Requests |-> None]

\* res.status(code).json({error, details})
ErrorReply(code, error, details) ==
    Some([status |-> code, error |-> error, details |-> details,
          hasTranscript |-> FALSE, transcript |-> <<>>])

\* res.json({transcript})
TranscriptReply(utterances) ==
    Some([status |-> 200, error |-> "", details |-> "",
          hasTranscript |-> TRUE, transcript |-> utterances])

\* ------------------------------------------------------------------------
\* Request validation and the encoding fallback loop
\* ------------------------------------------------------------------------

\* A request arrives; the handler runs to its first await.
Transcribe(hasAudio) ==
    /\ pc = "idle"
    /\ IF ~hasAudio
       THEN /\ res' = ErrorReply(400, "Audio content is required", "")
            /\ pc' = "done"
            /\ attempt' = attempt
       ELSE IF ~apiKey
       THEN /\ res' = ErrorReply(500, "Google API key not configured", "")
            /\ pc' = "done"
            /\ attempt' = attempt
       ELSE /\ res' = res
            /\ pc' = "awaiting"
            /\ attempt' = 1
    /\ UNCHANGED <<apiKey, finalResponse, lastError, words, i, currentSpeakerTag,
                   currentSegment, transcriptBySpeaker, mergedTranscript>>
    /\ UNCHANGED outsideTranscribe

\* finalResponse.data.results?.[0]?.alternatives?.[0]?.words is truthy (an
\* empty array is).
HasWords(r) ==
    /\ r.hasResults
    /\ Len(r.results) > 0
    /\ r.results[1].hasWords

\* The loop moves to the next config, or ends after the last.
NextConfig ==
    IF attempt < Len(audioConfigs)
    THEN attempt' = attempt + 1 /\ pc' = "awaiting"
    ELSE attempt' = 0 /\ pc' = "check"

\* Mutant of UpstreamResponse: the loop does not break on a response with
\* words.
UpstreamResponseNoBreak(r) ==
    /\ pc = "awaiting"
    /\ finalResponse' = Some(r)
    /\ NextConfig
    /\ UNCHANGED <<apiKey, lastError, words, i, currentSpeakerTag, currentSegment,
                   transcriptBySpeaker, mergedTranscript, res>>
    /\ UNCHANGED outsideTranscribe

\* axios.post resolves with response r.
UpstreamResponse(r) ==
    /\ pc = "awaiting"
    /\ finalResponse' = Some(r)
    /\ IF HasWords(r)
       THEN attempt' = 0 /\ pc' = "check"
       ELSE NextConfig
    /\ UNCHANGED <<apiKey, lastError, words, i, currentSpeakerTag, currentSegment,
                   transcriptBySpeaker, mergedTranscript, res>>
    /\ UNCHANGED outsideTranscribe

\* axios.post rejects with error e.
UpstreamError(e) ==
    /\ pc = "awaiting"
    /\ lastError' = Some(e)
    /\ NextConfig
    /\ UNCHANGED <<apiKey, finalResponse, words, i, currentSpeakerTag,
                   currentSegment, transcriptBySpeaker, mergedTranscript, res>>
    /\ UNCHANGED outsideTranscribe

RECURSIVE FlatMapWords(_)
\* results.flatMap(result => result.alternatives?.[0]?.words || [])
FlatMapWords(results) ==
    IF results = <<>> THEN <<>>
    ELSE (IF Head(results).hasWords THEN Head(results).words ELSE <<>>)
         \o FlatMapWords(Tail(results))

\* error.response?.data || error.message
ErrorDetails(e) == IF e.hasResponse /\ e.data # "" THEN e.data ELSE e.message

\* Mutant of NoUsableResult: a response without words counts as a failure.
NoUsableResultOrNoWords(response) ==
    \/ response = None
    \/ ~response[1].hasResults
    \/ FlatMapWords(response[1].results) = <<>>

\* Mutant of NoUsableResult: only the absence of any response is a failure.
NoUsableResultOnlyNone(response) == response = None

\* !finalResponse || !finalResponse.data.results
NoUsableResult(response) == response = None \/ ~response[1].hasResults

\* After the loop: throw when no response carries results (the catch block
\* answers 500), answer an empty transcript when there are no words, and
\* otherwise enter the word loop.  finalResponse and lastError are not read
\* after this point.
CheckResponse ==
    /\ pc = "check"
    /\ IF NoUsableResult(finalResponse)
       THEN /\ res' = ErrorReply(500, "Speech recognition failed",
                         IF lastError # None THEN ErrorDetails(lastError[1])
                         ELSE "Transcription failed after trying all configs.")
            /\ pc' = "done"
            /\ UNCHANGED <<words, i, currentSpeakerTag, currentSegment>>
       ELSE LET ws == FlatMapWords(finalResponse[1].results)
            IN  /\ words' = ws
                /\ IF Len(ws) = 0
                   THEN /\ res' = TranscriptReply(<<>>)
                        /\ pc' = "done"
                        /\ UNCHANGED <<i, currentSpeakerTag, currentSegment>>
                   ELSE /\ res' = res
                        /\ pc' = "loop"
                        /\ i' = 1
                        /\ currentSpeakerTag' = None
                        /\ currentSegment' = EmptySegment
    /\ finalResponse' = None
    /\ lastError' = None
    /\ UNCHANGED <<apiKey, attempt, transcriptBySpeaker, mergedTranscript>>
    /\ UNCHANGED outsideTranscribe

\* ------------------------------------------------------------------------
\* The word loop
\* ------------------------------------------------------------------------

\* Mutant of ScanBack: the scan runs forward from the first word and stops
\* at the first tag it meets.
ScanEarliest(ws, j) ==
    LET tagged == {p \in 1..j : ws[p].speakerTag # None}
    IN  IF tagged = {} THEN None
        ELSE ws[CHOOSE p \in tagged : \A q \in tagged : p <= q].speakerTag

RECURSIVE ScanBack(_, _)
\* The backward scan `for (j = i - 1; j >= 0; j--)`: the tag of the nearest
\* word at or before position j that has one, None when there is none.
ScanBack(ws, j) ==
    IF j < 1 THEN None
    ELSE IF ws[j].speakerTag # None THEN ws[j].speakerTag
    ELSE ScanBack(ws, j - 1)

\* Mutant of ResolveTag: the default speaker is 0.
ResolveTagDefaultZero(ws, k) ==
    LET own == ws[k].speakerTag
        found == IF own # None THEN own ELSE ScanBack(ws, k - 1)
    IN  ParseInt(IF found # None THEN found[1] ELSE 0)

\* The speaker tag the loop resolves for word k.
ResolveTag(ws, k) ==
    LET own == ws[k].speakerTag
        found == IF own # None THEN own ELSE ScanBack(ws, k - 1)
    IN  ParseInt(IF found # None THEN found[1] ELSE 1)

\* Mutant of SegmentTranscript: the joined text is not trimmed.
SegmentTranscriptUntrimmed(seg) ==
    Join([p \in 1..Len(seg.words) |-> seg.words[p].word], <<SP>>)

\* currentSegment.words.map(w => w.word).join(' ').trim()
SegmentTranscript(seg) ==
    Trim(Join([p \in 1..Len(seg.words) |-> seg.words[p].word], <<SP>>))

\* Mutant of CloseSegment: the utterance is pushed without the test of its
\* transcript.
CloseSegmentKeepEmpty(list, tag, seg) ==
    IF tag # None /\ Len(seg.words) > 0
    THEN Append(list, [speaker |-> SpeakerLabel(tag[1]),
                       transcript |-> Trim(Join([p \in 1..Len(seg.words) |->
                                                    seg.words[p].word], <<SP>>)),
                       startTime |-> seg.startTime,
                       endTime |-> seg.endTime])
    ELSE list

\* Segment closing: push the utterance of the segment unless its transcript
\* is empty.
CloseSegment(list, tag, seg) ==
    IF tag # None /\ Len(seg.words) > 0
    THEN LET transcript == SegmentTranscript(seg)
         IN  IF transcript # <<>>
             THEN Append(list, [speaker |-> SpeakerLabel(tag[1]),
                                transcript |-> transcript,
                                startTime |-> seg.startTime,
                                endTime |-> seg.endTime])
             ELSE list
    ELSE list

\* One iteration of the word loop.
WordStep ==
    /\ pc = "loop"
    /\ i <= Len(words)
    /\ LET wordInfo == words[i]
           speakerTag == ResolveTag(words, i)
       IN  IF currentSpeakerTag = None \/ Some(speakerTag) # currentSpeakerTag
           THEN /\ transcriptBySpeaker' =
                       CloseSegment(transcriptBySpeaker, currentSpeakerTag, currentSegment)
                /\ currentSpeakerTag' = Some(speakerTag)
                /\ currentSegment' = [words |-> <<wordInfo>>,
                                      startTime |-> OrElse(wordInfo.startTime, None),
                                      endTime |-> OrElse(wordInfo.endTime, None)]
           ELSE /\ currentSegment' =
                       [currentSegment EXCEPT
                           !.words = Append(@, wordInfo),
                           !.endTime = OrElse(wordInfo.endTime, @)]
                /\ UNCHANGED <<transcriptBySpeaker, currentSpeakerTag>>
    /\ i' = i + 1
    /\ UNCHANGED <<apiKey, pc, attempt, finalResponse, lastError, words,
                   mergedTranscript, res>>
    /\ UNCHANGED outsideTranscribe

\* Mutant of FinalSegment: the segment left open is not closed.
FinalSegmentNotClosed ==
    /\ pc = "loop"
    /\ i > Len(words)
    /\ mergedTranscript' = <<>>
    /\ pc' = "merge"
    /\ i' = 1
    /\ UNCHANGED <<apiKey, attempt, finalResponse, lastError, words,
                   currentSpeakerTag, currentSegment, transcriptBySpeaker, res>>
    /\ UNCHANGED outsideTranscribe

\* After the loop: close the segment left open and enter the merge pass.
FinalSegment ==
    /\ pc = "loop"
    /\ i > Len(words)
    /\ transcriptBySpeaker' =
           CloseSegment(transcriptBySpeaker, currentSpeakerTag, currentSegment)
    /\ mergedTranscript' = <<>>
    /\ pc' = "merge"
    /\ i' = 1
    /\ UNCHANGED <<apiKey, attempt, finalResponse, lastError, words,
                   currentSpeakerTag, currentSegment, res>>
    /\ UNCHANGED outsideTranscribe

\* ------------------------------------------------------------------------
\* The merge pass
\* ------------------------------------------------------------------------

\* currentWordCount
CurrentWordCount(utterance) == Len(Split(utterance.transcript, SP))

\* Mutant of ShouldMerge: the threshold is 2 instead of 3.
ShouldMergeBelowTwo(list, k) ==
    /\ k < Len(list)
    /\ Len(Split(list[k].transcript, SP)) < 2
    /\ list[k].speaker = list[k + 1].speaker

\* Mutant of ShouldMerge: the speakers are not compared.
ShouldMergeAnySpeaker(list, k) ==
    /\ k < Len(list)
    /\ Len(Split(list[k].transcript, SP)) < 3

\* The test that merges utterance k into its successor.
ShouldMerge(list, k) ==
    /\ k < Len(list)
    /\ CurrentWordCount(list[k]) < 3
    /\ list[k].speaker = list[k + 1].speaker

\* Mutant of MergeInto: the current transcript is appended, not prepended.
MergeIntoAppended(current, next) ==
    [next EXCEPT
        !.transcript = next.transcript \o <<SP>> \o current.transcript,
        !.startTime = OrElse(current.startTime, next.startTime)]

\* Mutant of MergeInto: the operands of `||` are swapped.
MergeIntoKeepsStart(current, next) ==
    [next EXCEPT
        !.transcript = current.transcript \o <<SP>> \o next.transcript,
        !.startTime = OrElse(next.startTime, current.startTime)]

\* The successor after the merge of current into it.
MergeInto(current, next) ==
    [next EXCEPT
        !.transcript = current.transcript \o <<SP>> \o next.transcript,
        !.startTime = OrElse(current.startTime, next.startTime)]

\* Mutant of EmittedUtterance: the utterance is pushed as it is.
EmittedUtteranceWhole(current) == current

\* The element pushed to mergedTranscript: speaker and transcript only.
EmittedUtterance(current) ==
    [speaker |-> current.speaker, transcript |-> current.transcript]

\* Mutant of MergeStep: an utterance that is not merged is neither emitted
\* nor passed over.
MergeStepStuck ==
    /\ pc = "merge"
    /\ i <= Len(transcriptBySpeaker)
    /\ IF ShouldMerge(transcriptBySpeaker, i)
       THEN /\ transcriptBySpeaker' =
                   [transcriptBySpeaker EXCEPT
                       ![i + 1] = MergeInto(transcriptBySpeaker[i],
                                            transcriptBySpeaker[i + 1])]
            /\ i' = i + 1
       ELSE UNCHANGED <<transcriptBySpeaker, i>>
    /\ UNCHANGED <<apiKey, pc, attempt, finalResponse, lastError, words,
                   currentSpeakerTag, currentSegment, mergedTranscript, res>>
    /\ UNCHANGED outsideTranscribe

\* One iteration of the merge pass.
MergeStep ==
    /\ pc = "merge"
    /\ i <= Len(transcriptBySpeaker)
    /\ LET current == transcriptBySpeaker[i]
       IN  IF ShouldMerge(transcriptBySpeaker, i)
           THEN /\ transcriptBySpeaker' =
                       [transcriptBySpeaker EXCEPT
                           ![i + 1] = MergeInto(current, transcriptBySpeaker[i + 1])]
                /\ mergedTranscript' = mergedTranscript
           ELSE /\ mergedTranscript' =
                       Append(mergedTranscript, EmittedUtterance(current))
                /\ transcriptBySpeaker' = transcriptBySpeaker
    /\ i' = i + 1
    /\ UNCHANGED <<apiKey, pc, attempt, finalResponse, lastError, words,
                   currentSpeakerTag, currentSegment, res>>
    /\ UNCHANGED outsideTranscribe

\* res.json({ transcript: mergedTranscript })
Respond ==
    /\ pc = "merge"
    /\ i > Len(transcriptBySpeaker)
    /\ res' = TranscriptReply(mergedTranscript)
    /\ pc' = "done"
    /\ UNCHANGED <<apiKey, attempt, finalResponse, lastError, words, i,
                   currentSpeakerTag, currentSegment, transcriptBySpeaker,
                   mergedTranscript>>
    /\ UNCHANGED outsideTranscribe

\* The request in flight settles: with a response or with an error.
UpstreamReply ==
    /\ pc = "awaiting"
    /\ \/ \E r \in Responses : UpstreamResponse(r)
       \/ \E e \in UpstreamErrors : UpstreamError(e)

Next ==
    \/ \E hasAudio \in BOOLEAN : Transcribe(hasAudio)
    \/ UpstreamReply
    \/ CheckResponse
    \/ WordStep
    \/ FinalSegment
    \/ MergeStep
    \/ Respond

Spec == Init /\ [][Next]_vars

\* The transcript builder on its own: the fallback loop has ended and has
\* left some response; the code after it runs to completion, every enabled
\* step of it being taken (there is no await after the loop).
InitBuilder ==
    /\ Init
    /\ apiKey

\* The word sequences the builder is run on: every sequence of up to
\* MaxWords words whose text is empty, whitespace or a token, tagged or not,
\* with times on all words or on none.
BuilderTexts == {<<>>, <<SP>>, <<"a">>}

BuilderWordSeqs ==
    {Stamp(ws, IF timed THEN 1..Len(ws) ELSE {}) :
        ws \in UNION {[1..k -> [word : BuilderTexts, speakerTag : Tags]] :
                          k \in 0..MaxWords},
        timed \in BOOLEAN}

\* The fallback loop ends with a response that carries the words ws.
BuilderStarts ==
    /\ pc = "idle"
    /\ \E ws \in BuilderWordSeqs : finalResponse' = Some(OneResult(ws))
    /\ pc' = "check"
    /\ UNCHANGED <<apiKey, attempt, lastError, words, i, currentSpeakerTag,
                   currentSegment, transcriptBySpeaker, mergedTranscript, res>>
    /\ UNCHANGED outsideTranscribe

NextBuilder ==
    \/ BuilderStarts
    \/ CheckResponse
    \/ WordStep
    \/ FinalSegment
    \/ MergeStep
    \/ Respond

SpecLive ==
    /\ InitBuilder
    /\ [][NextBuilder]_vars
    /\ WF_vars(CheckResponse)
    /\ WF_vars(WordStep)
    /\ WF_vars(FinalSegment)
    /\ WF_vars(MergeStep)
    /\ WF_vars(Respond)

TypeOK ==
    /\ pc \in {"idle", "awaiting", "check", "loop", "merge", "done"}
    /\ attempt \in 0..Len(audioConfigs)
    /\ i \in 0..(Len(words) + 1)

\* ------------------------------------------------------------------------
\* retryRequest
\* ------------------------------------------------------------------------

\* Largest retry-after header value (seconds) the upstream sends.
MaxRetryAfter == 1

\* The default arguments of retryRequest.
DefaultRetries == 3

DefaultInitialDelay == 2000

\* The three copies of the helper; the copy of preScreening.js has no quota
\* test.
Helpers == {"preScreening", "transcriptAnalysis", "prescription"}

HasQuotaTest(h) == h \in {"transcriptAnalysis", "prescription"}

\* The needle of includes('Quota exceeded'), as words.
QuotaExceeded == <<"Quota", "exceeded">>

\* haystack.includes(needle) on texts given as sequences of words.
Includes(haystack, needle) ==
    \E p \in 0..(Len(haystack) - Len(needle)) :
        SubSeq(haystack, p + 1, p + Len(needle)) = needle

\* error.response.data.error.message of a failure.
UpstreamMessages ==
    {<<"Quota", "exceeded", "for", "requests">>,
     <<"Requests", "Quota", "exceeded">>,
     <<"exceeded", "Quota">>,
     <<"Too", "many", "requests">>}

\* An error: name and text are those of the Error object; status is that of
\* error.response (None without a response), retryAfter the header of that
\* response, errorField whether response.data.error is there and message its
\* message.
MakeError(name, text, status, retryAfter, errorField, message) ==
    [name |-> name, text |-> text, status |-> status, retryAfter |-> retryAfter,
     errorField |-> errorField, message |-> message]

\* The failures of axios.post: a 429 with or without retry-after header and
\* with the shapes of response.data, another HTTP status, no response.
PostFailures ==
    {MakeError("AxiosError", "Request failed with status code 429", Some(429),
               ra, TRUE, Some(m)) :
        ra \in {None} \cup {Some(n) : n \in 1..MaxRetryAfter}, m \in UpstreamMessages}
    \cup
    {MakeError("AxiosError", "Request failed with status code 429", Some(429),
               ra, ef, None) :
        ra \in {None} \cup {Some(n) : n \in 1..MaxRetryAfter}, ef \in BOOLEAN}
    \cup
    {MakeError("AxiosError", "Request failed with status code 500", Some(500),
               None, TRUE, Some(<<"Internal", "error">>)),
     MakeError("AxiosError", "timeout of 30000ms exceeded", None, None, FALSE, None)}

\* The responses axios.post resolves with.
PostResponses == {"response A", "response B"}

\* new Error('API quota exhausted. Please check your subscription.')
QuotaExhausted ==
    MakeError("Error", "API quota exhausted. Please check your subscription.",
              None, None, FALSE, None)

\* The TypeError of `undefined.includes` when data.error has no message.
IncludesOfUndefined ==
    MakeError("TypeError", "Cannot read properties of undefined (reading 'includes')",
              None, None, FALSE, None)

\* A caller calls retryRequest(url, data, headers) of helper h; the call runs
\* to its await of axios.post.
RetryRequest(h) ==
    /\ rpc = "idle"
    /\ helper' = h
    /\ retries' = DefaultRetries
    /\ initialDelay' = DefaultInitialDelay
    /\ posts' = 1
    /\ rpc' = "posting"
    /\ UNCHANGED <<caught, delay, returned, thrown>>
    /\ UNCHANGED outsideRetry

\* axios.post resolves: the response is returned.
PostResolved(response) ==
    /\ rpc = "posting"
    /\ returned' = Some(response)
    /\ rpc' = "returned"
    /\ UNCHANGED <<helper, retries, initialDelay, posts, caught, delay, thrown>>
    /\ UNCHANGED outsideRetry

\* Mutant of Retryable: the status of the failure is not looked at.
RetryableAnyFailure(error, left) == left > 0

\* error.response && error.response.status === 429 && retries > 0
Retryable(error, left) == error.status = Some(429) /\ left > 0

\* error.response.data?.error?.message.includes('Quota exceeded'): "throws"
\* when data.error has no message, else the result of the test.
QuotaTest(error) ==
    IF ~error.errorField THEN "no"
    ELSE IF error.message = None THEN "throws"
    ELSE IF Includes(error.message[1], QuotaExceeded) THEN "yes"
    ELSE "no"

\* (error.response.headers['retry-after'] || initialDelay / 1000) * 1000
DelayOf(error, initial) ==
    (IF Truthy(error.retryAfter) THEN error.retryAfter[1] ELSE initial \div 1000)
        * 1000

\* axios.post rejects: the catch block runs to its throw or to its await of
\* the timer.
PostRejected(error) ==
    /\ rpc = "posting"
    /\ caught' = Some(error)
    /\ IF Retryable(error, retries)
       THEN IF HasQuotaTest(helper) /\ QuotaTest(error) = "yes"
            THEN /\ thrown' = Some(QuotaExhausted)
                 /\ rpc' = "thrown"
                 /\ delay' = delay
            ELSE IF HasQuotaTest(helper) /\ QuotaTest(error) = "throws"
            THEN /\ thrown' = Some(IncludesOfUndefined)
                 /\ rpc' = "thrown"
                 /\ delay' = delay
            ELSE /\ delay' = DelayOf(error, initialDelay)
                 /\ rpc' = "waiting"
                 /\ thrown' = thrown
       ELSE /\ thrown' = Some(error)
            /\ rpc' = "thrown"
            /\ delay' = delay
    /\ UNCHANGED <<helper, retries, initialDelay, posts, returned>>
    /\ UNCHANGED outsideRetry

\* The timer fires: the recursive call runs to its await of axios.post.
TimerFired ==
    /\ rpc = "waiting"
    /\ retries' = retries - 1
    /\ initialDelay' = initialDelay * 2
    /\ posts' = posts + 1
    /\ caught' = None
    /\ delay' = 0
    /\ rpc' = "posting"
    /\ UNCHANGED <<helper, returned, thrown>>
    /\ UNCHANGED outsideRetry

\* The request in flight settles.
PostSettles ==
    /\ rpc = "posting"
    /\ \/ \E response \in PostResponses : PostResolved(response)
       \/ \E error \in PostFailures : PostRejected(error)

NextRetry ==
    \/ \E h \in Helpers : RetryRequest(h)
    \/ PostSettles
    \/ TimerFired

SpecRetry == Init /\ [][NextRetry]_vars

\* ------------------------------------------------------------------------
\* The transcript builder as a function of the words
\* ------------------------------------------------------------------------

RECURSIVE WordLoop(_, _, _, _, _)
\* The word loop from word k on, with the speaker tag, the open segment and
\* the list as they stand; the segment left open is closed at the end.
WordLoop(ws, k, tag, seg, list) ==
    IF k > Len(ws) THEN CloseSegment(list, tag, seg)
    ELSE LET wordInfo == ws[k]
             speakerTag == ResolveTag(ws, k)
         IN  IF tag = None \/ Some(speakerTag) # tag
             THEN WordLoop(ws, k + 1, Some(speakerTag),
                           [words |-> <<wordInfo>>,
                            startTime |-> OrElse(wordInfo.startTime, None),
                            endTime |-> OrElse(wordInfo.endTime, None)],
                           CloseSegment(list, tag, seg))
             ELSE WordLoop(ws, k + 1, tag,
                           [seg EXCEPT !.words = Append(@, wordInfo),
                                       !.endTime = OrElse(wordInfo.endTime, @)],
                           list)

RECURSIVE MergePass(_, _, _)
\* The merge pass from utterance k on, with the merged list as it stands.
MergePass(list, k, merged) ==
    IF k > Len(list) THEN merged
    ELSE IF ShouldMerge(list, k)
    THEN MergePass([list EXCEPT ![k + 1] = MergeInto(list[k], list[k + 1])],
                   k + 1, merged)
    ELSE MergePass(list, k + 1, Append(merged, EmittedUtterance(list[k])))

\* mergedTranscript for the words ws.
TranscriptOf(ws) == MergePass(WordLoop(ws, 1, None, EmptySegment, <<>>), 1, <<>>)

\* What the handler answers once the fallback loop has left response:
\* lines 79-198 and the catch block, run to completion.
ReplyFor(response, error) ==
    IF NoUsableResult(response)
    THEN ErrorReply(500, "Speech recognition failed",
                    IF error # None THEN ErrorDetails(error[1])
                    ELSE "Transcription failed after trying all configs.")
    ELSE LET ws == FlatMapWords(response[1].results)
         IN  IF Len(ws) = 0 THEN TranscriptReply(<<>>)
             ELSE TranscriptReply(TranscriptOf(ws))

\* The steps of the handler compute what the functions compute.
StepsComputeTranscriptOf ==
    /\ (pc = "merge" /\ i = 1) =>
           transcriptBySpeaker = WordLoop(words, 1, None, EmptySegment, <<>>)
    /\ (pc = "done" /\ res # None /\ res[1].hasTranscript) =>
           res[1].transcript = TranscriptOf(words)

\* ------------------------------------------------------------------------
\* The plain /transcribe handler (src/routes/speechToText.js)
\* ------------------------------------------------------------------------

\* Largest number of results in a response of the plain handler.
MaxPlainResults == 2

\* audioConfigs of the plain handler: the encodings tried, in order.
plainAudioConfigs == <<"WEBM_OPUS", "OGG_OPUS", "LINEAR16", "FLAC">>

\* A result: alternatives[0] is there or not, and its transcript if it has
\* one.
PlainResultShapes ==
    {[hasAlternative |-> FALSE, transcript |-> None],
     [hasAlternative |-> TRUE, transcript |-> None],
     [hasAlternative |-> TRUE, transcript |-> Some(<<"a">>)],
     [hasAlternative |-> TRUE, transcript |-> Some(<<"b">>)]}

\* response.data of a resolved request: without results, or with up to
\* MaxPlainResults results.
PlainResponses ==
    {[hasResults |-> FALSE, results |-> <<>>]} \cup
    {[hasResults |-> TRUE, results |-> rs] :
        rs \in UNION {[1..k -> PlainResultShapes] : k \in 0..MaxPlainResults}}

\* The rejections of axios.post: with an HTTP response, with a request that
\* got no response, with neither.
PlainErrors ==
    {[hasResponse |-> TRUE, status |-> 400, hasRequest |-> TRUE,
      message |-> "Request failed with status code 400"],
     [hasResponse |-> TRUE, status |-> 503, hasRequest |-> TRUE,
      message |-> "Request failed with status code 503"],
     [hasResponse |-> FALSE, status |-> 0, hasRequest |-> TRUE,
      message |-> "timeout of 60000ms exceeded"],
     [hasResponse |-> FALSE, status |-> 0, hasRequest |-> FALSE,
      message |-> "Invalid URL"]}

\* The TypeError of result.alternatives[0].transcript on a result without
\* alternatives[0].
NoAlternative ==
    [hasResponse |-> FALSE, status |-> 0, hasRequest |-> FALSE,
     message |-> "Cannot read properties of undefined"]

\* What res sends: status, the error text of an error body, and the
\* transcript of a transcript body.
PlainReplyOf(status, error, hasTranscript, transcript) ==
    Some([status |-> status, error |-> error, hasTranscript |-> hasTranscript,
          transcript |-> transcript])

\* The catch block of lines 88-108.
PlainCatch(error) ==
    IF error.hasResponse
    THEN PlainReplyOf(error.status, "Speech recognition failed", FALSE, <<>>)
    ELSE IF error.hasRequest
    THEN PlainReplyOf(500, "Network error - unable to reach Google Speech API",
                      FALSE, <<>>)
    ELSE PlainReplyOf(500, "Speech recognition failed", FALSE, <<>>)

\* results.map(result => result.alternatives[0].transcript).join(' '): join
\* writes a missing transcript as the empty text.
PlainTranscription(results) ==
    Join([k \in 1..Len(results) |->
             IF results[k].transcript = None THEN <<>> ELSE results[k].transcript[1]],
         <<SP>>)

\* A request arrives; the handler runs to its first await.
PlainTranscribe(hasAudio) ==
    /\ plainPc = "idle"
    /\ IF ~hasAudio
       THEN /\ plainRes' = PlainReplyOf(400, "Audio content is required", FALSE, <<>>)
            /\ plainPc' = "done"
            /\ UNCHANGED <<plainAttempt, posted>>
       ELSE IF ~apiKey
       THEN /\ plainRes' = PlainReplyOf(500, "Google API key not configured",
                                        FALSE, <<>>)
            /\ plainPc' = "done"
            /\ UNCHANGED <<plainAttempt, posted>>
       ELSE /\ plainAttempt' = 1
            /\ posted' = <<plainAudioConfigs[1]>>
            /\ plainPc' = "awaiting"
            /\ plainRes' = plainRes
    /\ UNCHANGED <<plainResponse, plainLastError, emitted>>
    /\ UNCHANGED outsidePlain

\* axios.post resolves with response data r: the loop breaks and the handler
\* runs to its end (lines 67-87, or the catch block when line 82 throws).
PlainResolved(r) ==
    /\ plainPc = "awaiting"
    /\ plainResponse' = Some(r)
    /\ IF r.hasResults /\ \E k \in 1..Len(r.results) : ~r.results[k].hasAlternative
       THEN /\ plainRes' = PlainCatch(NoAlternative)
            /\ emitted' = emitted
       ELSE LET transcription ==
                    IF r.hasResults THEN PlainTranscription(r.results) ELSE <<>>
            IN  /\ emitted' = Append(emitted, transcription)
                /\ plainRes' = PlainReplyOf(200, "", TRUE, transcription)
    /\ plainPc' = "done"
    /\ UNCHANGED <<plainAttempt, posted, plainLastError>>
    /\ UNCHANGED outsidePlain

\* axios.post rejects with error e: the loop goes to the next config, or
\* ends after the last and line 78 throws lastError to the catch block.
PlainRejected(e) ==
    /\ plainPc = "awaiting"
    /\ plainLastError' = Some(e)
    /\ IF plainAttempt < Len(plainAudioConfigs)
       THEN /\ plainAttempt' = plainAttempt + 1
            /\ posted' = Append(posted, plainAudioConfigs[plainAttempt + 1])
            /\ UNCHANGED <<plainPc, plainRes>>
       ELSE /\ plainRes' = PlainCatch(e)
            /\ plainPc' = "done"
            /\ UNCHANGED <<plainAttempt, posted>>
    /\ UNCHANGED <<plainResponse, emitted>>
    /\ UNCHANGED outsidePlain

\* The request in flight settles.
PlainSettles ==
    /\ plainPc = "awaiting"
    /\ \/ \E r \in PlainResponses : PlainResolved(r)
       \/ \E e \in PlainErrors : PlainRejected(e)

NextPlain ==
    \/ \E hasAudio \in BOOLEAN : PlainTranscribe(hasAudio)
    \/ PlainSettles

SpecPlain == Init /\ [][NextPlain]_vars

\* ------------------------------------------------------------------------
\* Two invocations of the diarized handler in flight together
\* ------------------------------------------------------------------------

\* The word lists of the responses the two requests receive.
ConcWords ==
    {Stamp(<<[word |-> <<"a">>, speakerTag |-> Some(1)],
             [word |-> <<"b">>, speakerTag |-> Some(1)],
             [word |-> <<"a">>, speakerTag |-> Some(2)]>>, {1, 2, 3}),
     Stamp(<<[word |-> <<"b">>, speakerTag |-> None],
             [word |-> <<SP>>, speakerTag |-> Some(2)],
             [word |-> <<"b">>, speakerTag |-> Some(1)]>>, {})}

\* The responses: without results, with results that hold no words list,
\* with words only in the second result, with words in the first.
ConcResponses ==
    {NoResultsField,
     [hasResults |-> TRUE, results |-> <<[hasWords |-> FALSE, words |-> <<>>]>>]}
    \cup {[hasResults |-> TRUE,
           results |-> <<[hasWords |-> FALSE, words |-> <<>>],
                         [hasWords |-> TRUE, words |-> ws]>>] : ws \in ConcWords}
    \cup {OneResult(ws) : ws \in ConcWords}

\* What an upstream request ends with: a response or an error.
ConcOutcomes ==
    {[response |-> Some(r), error |-> None] : r \in ConcResponses}
    \cup {[response |-> None, error |-> Some(e)] : e \in UpstreamErrors}

\* Mutant of Frame: finalResponse and lastError are declared outside the
\* handler, one pair for all invocations.
FrameShared(q) == 1

\* The frame that holds the locals of invocation q: `let finalResponse` and
\* `let lastError` are declared inside the handler.
Frame(q) == q

\* Request q arrives; its invocation runs to its first await.
ConcTranscribe(q, hasAudio) ==
    /\ cPc[q] = "idle"
    /\ cRequest' = [cRequest EXCEPT ![q] = Some([hasAudio |-> hasAudio])]
    /\ IF ~hasAudio
       THEN /\ cRes' = [cRes EXCEPT ![q] = ErrorReply(400, "Audio content is required", "")]
            /\ cPc' = [cPc EXCEPT ![q] = "done"]
            /\ UNCHANGED <<cAttempt, cFinalResponse, cLastError>>
       ELSE IF ~apiKey
       THEN /\ cRes' = [cRes EXCEPT ![q] = ErrorReply(500, "Google API key not configured", "")]
            /\ cPc' = [cPc EXCEPT ![q] = "done"]
            /\ UNCHANGED <<cAttempt, cFinalResponse, cLastError>>
       ELSE /\ cPc' = [cPc EXCEPT ![q] = "awaiting"]
            /\ cAttempt' = [cAttempt EXCEPT ![q] = 1]
            /\ cFinalResponse' = [cFinalResponse EXCEPT ![Frame(q)] = None]
            /\ cLastError' = [cLastError EXCEPT ![Frame(q)] = None]
            /\ cRes' = cRes
    /\ UNCHANGED <<apiKey, cReceived>>
    /\ UNCHANGED outsideConc

\* The upstream request of invocation q settles with outcome o: the
\* invocation runs to its next await, or to its end when the loop ends.
ConcSettled(q, o) ==
    /\ cPc[q] = "awaiting"
    /\ cReceived' = [cReceived EXCEPT ![q] = Append(@, o)]
    /\ cFinalResponse' =
           IF o.response # None
           THEN [cFinalResponse EXCEPT ![Frame(q)] = o.response]
           ELSE cFinalResponse
    /\ cLastError' =
           IF o.error # None
           THEN [cLastError EXCEPT ![Frame(q)] = o.error]
           ELSE cLastError
    /\ IF \/ cAttempt[q] = Len(audioConfigs)
          \/ o.response # None /\ HasWords(cFinalResponse'[Frame(q)][1])
       THEN /\ cRes' = [cRes EXCEPT
                           ![q] = ReplyFor(cFinalResponse'[Frame(q)],
                                           cLastError'[Frame(q)])]
            /\ cPc' = [cPc EXCEPT ![q] = "done"]
            /\ cAttempt' = cAttempt
       ELSE /\ cAttempt' = [cAttempt EXCEPT ![q] = @ + 1]
            /\ UNCHANGED <<cPc, cRes>>
    /\ UNCHANGED <<apiKey, cRequest>>
    /\ UNCHANGED outsideConc

NextConc ==
    \/ \E q \in Requests, hasAudio \in BOOLEAN : ConcTranscribe(q, hasAudio)
    \/ \E q \in Requests :
           /\ cPc[q] = "awaiting"
           /\ \E o \in ConcOutcomes : ConcSettled(q, o)

SpecConc == Init /\ [][NextConc]_vars

\* ------------------------------------------------------------------------
\* Request validation of the handlers that forward to an external API
\* ------------------------------------------------------------------------

\* The most upstream requests one invocation makes in the model (the
\* fallback and retry loops are modelled step by step in their own sections).
MaxProxySends == 2

\* The routes that call an external API with a key read from the environment.
ProxyRoutes ==
    {"speech/transcribe", "speech/detect-language", "translate",
     "translate/languages", "transcript/analyze", "transcript/summarize",
     "prescription/generate", "pre-screening/next-question",
     "pre-screening/generate-report"}

\* The body fields a route destructures from req.body.
ProxyFields(route) ==
    CASE route \in {"speech/transcribe", "speech/detect-language"} ->
             {"audioContent"}
      [] route = "translate" -> {"text", "targetLanguage", "sourceLanguage"}
      [] route = "translate/languages" -> {}
      [] route \in {"transcript/analyze", "transcript/summarize"} ->
             {"transcript"}
      [] route = "prescription/generate" -> {"symptoms", "diagnosis", "notes"}
      [] route = "pre-screening/next-question" -> {"department", "conversation"}
      [] route = "pre-screening/generate-report" ->
             {"conversation", "appointmentDetails"}

\* The test of the route's 400 answer: a field is in body when the request
\* carries a truthy value for it (a non-empty array for conversation).
MissingField(route, body) ==
    CASE route \in {"speech/transcribe", "speech/detect-language"} ->
             "audioContent" \notin body
      [] route = "translate" ->
             "text" \notin body \/ "targetLanguage" \notin body
      [] route = "translate/languages" -> FALSE
      [] route \in {"transcript/analyze", "transcript/summarize"} ->
             "transcript" \notin body
      [] route = "prescription/generate" ->
             body \cap {"symptoms", "diagnosis", "notes"} = {}
      [] route = "pre-screening/next-question" -> FALSE
      [] route = "pre-screening/generate-report" -> "conversation" \notin body

\* The early returns of a handler without the test of the API key.
RejectionBodyOnly(route, body, key) ==
    IF MissingField(route, body) THEN Some(400) ELSE None

\* The early returns of a handler: None, or Some(status) of the answer sent
\* before anything else is done.  Every route tests its body first and its
\* key second.
Rejection(route, body, key) ==
    IF MissingField(route, body) THEN Some(400)
    ELSE IF ~key THEN Some(500)
    ELSE None

\* /translate answers with the text itself when the source language is given
\* and equals the target language.
SameLanguage(route, body, same) ==
    route = "translate" /\ "sourceLanguage" \in body /\ same

\* /generate-report reads appointmentDetails.date while it builds the prompt:
\* a TypeError, caught and answered 500, when the body has no appointmentDetails.
PromptThrows(route, body) ==
    route = "pre-screening/generate-report" /\ "appointmentDetails" \notin body

\* A request arrives: the handler runs up to its first await or its answer.
ProxyRequest ==
    /\ proxyPc = "idle"
    /\ \E route \in ProxyRoutes, key \in BOOLEAN, same \in BOOLEAN :
         \E body \in SUBSET ProxyFields(route) :
            /\ proxyRoute' = route
            /\ proxyBody' = body
            /\ proxyKey' = key
            /\ proxyEmitted' = proxyEmitted
            /\ IF Truthy(Rejection(route, body, key))
               THEN /\ proxyRes' = Rejection(route, body, key)
                    /\ proxyPc' = "done"
                    /\ proxySent' = proxySent
               ELSE IF SameLanguage(route, body, same)
               THEN /\ proxyRes' = Some(200)
                    /\ proxyPc' = "done"
                    /\ proxySent' = proxySent
               ELSE IF PromptThrows(route, body)
               THEN /\ proxyRes' = Some(500)
                    /\ proxyPc' = "done"
                    /\ proxySent' = proxySent
               ELSE /\ proxyRes' = None
                    /\ proxyPc' = "awaiting"
                    /\ proxySent' = proxySent + 1
    /\ UNCHANGED outsideProxy

\* The statuses an upstream failure is answered with.
ProxyFailureStatuses == {429, 500}

\* The upstream request succeeds: the handler answers 200, and the plain
\* /transcribe handler emits the transcript first.
ProxyResolved ==
    /\ proxyPc = "awaiting"
    /\ proxyEmitted' =
         IF proxyRoute = "speech/transcribe" THEN proxyEmitted + 1 ELSE proxyEmitted
    /\ proxyRes' = Some(200)
    /\ proxyPc' = "done"
    /\ UNCHANGED <<proxyRoute, proxyBody, proxyKey, proxySent>>
    /\ UNCHANGED outsideProxy

\* The upstream request fails: the handler sends another one (its fallback
\* or retry) or answers with an error status.
ProxyRejected ==
    /\ proxyPc = "awaiting"
    /\ \/ /\ proxySent < MaxProxySends
          /\ proxySent' = proxySent + 1
          /\ UNCHANGED <<proxyPc, proxyRes>>
       \/ /\ \E status \in ProxyFailureStatuses : proxyRes' = Some(status)
          /\ proxyPc' = "done"
          /\ proxySent' = proxySent
    /\ UNCHANGED <<proxyRoute, proxyBody, proxyKey, proxyEmitted>>
    /\ UNCHANGED outsideProxy

NextProxy == ProxyRequest \/ ProxyResolved \/ ProxyRejected

SpecProxy == Init /\ [][NextProxy]_vars

\* ------------------------------------------------------------------------
\* /detect-language: the best-result loop
\* ------------------------------------------------------------------------

\* audioConfigs of /detect-language: the encodings tried, in order.
detectAudioConfigs == <<"WEBM_OPUS", "OGG_OPUS", "LINEAR16", "FLAC">>

\* Confidences are counted in hundredths: 0.7 is 70 and 0.3 is 30.
HighConfidence == 70

AcceptConfidence == 30

\* The languages and confidences the upstream answers of the model carry.
DetectLanguages == {"hi-IN", "en-US"}

DetectConfidences == {30, 50, 70, 90}

\* response.data of a resolved request: results[0] exists or not, its
\* languageCode, and the confidence and transcript of its first alternative,
\* each present or not.
DetectResponses ==
    {[hasResult |-> FALSE, languageCode |-> None, confidence |-> None,
      transcript |-> None]}
    \cup [hasResult : {TRUE},
          languageCode : {None} \cup {Some(l) : l \in DetectLanguages},
          confidence : {None} \cup {Some(c) : c \in DetectConfidences},
          transcript : {None, Some("t")}]

\* A rejected request: whether error.response.data.error.message includes 'auto'.
DetectErrors == [mentionsAuto : BOOLEAN]

\* result.alternatives?.[0]?.confidence || 0
ConfidenceOf(response) == OrElse(response.confidence, Some(0))[1]

\* result.alternatives?.[0]?.transcript || ''
TranscriptTextOf(response) == OrElse(response.transcript, Some(""))[1]

\* The response carries results[0].languageCode.
HasLanguage(response) == response.hasResult /\ Truthy(response.languageCode)

\* The update of bestConfidence, bestTranscript and bestLanguage by a
\* response, and the record of what was received.
KeepBest(response) ==
    /\ detectReceived' =
         IF HasLanguage(response)
         THEN Append(detectReceived,
                     <<response.languageCode[1], ConfidenceOf(response)>>)
         ELSE detectReceived
    /\ IF HasLanguage(response) /\ ConfidenceOf(response) > bestConfidence
       THEN /\ bestConfidence' = ConfidenceOf(response)
            /\ bestTranscript' = TranscriptTextOf(response)
            /\ bestLanguage' = response.languageCode
       ELSE UNCHANGED <<bestConfidence, bestTranscript, bestLanguage>>

\* res.json of the end of the handler.
DetectAnswer ==
    IF Truthy(bestLanguage) /\ bestConfidence > AcceptConfidence
    THEN Some([status |-> 200, language |-> bestLanguage[1],
               confidence |-> bestConfidence, transcript |-> bestTranscript])
    ELSE Some([status |-> 200, language |-> "en-US", confidence |-> 0,
               transcript |-> ""])

\* The loop moves to the config after detectConfig and posts its request, or
\* ends after the last config with the answer.
DetectAdvance ==
    IF detectConfig < Len(detectAudioConfigs)
    THEN /\ detectConfig' = detectConfig + 1
         /\ detectSent' = detectSent + 1
         /\ detectPc' = "awaiting"
         /\ detectRes' = detectRes
    ELSE /\ detectPc' = "answer"
         /\ UNCHANGED <<detectConfig, detectSent, detectRes>>

\* A valid request arrives with the key set: the loop posts its first request.
DetectLanguage ==
    /\ detectPc = "idle"
    /\ detectConfig' = 1
    /\ detectSent' = detectSent + 1
    /\ detectPc' = "awaiting"
    /\ UNCHANGED <<detectReceived, bestConfidence, bestLanguage, bestTranscript,
                   detectRes>>
    /\ UNCHANGED outsideDetect

\* The request of the loop resolves: keep the best, break when it is good.
DetectResolved ==
    /\ detectPc = "awaiting"
    /\ \E response \in DetectResponses :
         /\ KeepBest(response)
         /\ IF bestConfidence' > HighConfidence
            THEN /\ detectPc' = "answer"
                 /\ UNCHANGED <<detectConfig, detectSent, detectRes>>
            ELSE DetectAdvance
    /\ UNCHANGED outsideDetect

\* The request of the loop rejects: post the request without 'auto' when the
\* message mentions it, else continue with the next config.
DetectRejected ==
    /\ detectPc = "awaiting"
    /\ \E error \in DetectErrors :
         IF error.mentionsAuto
         THEN /\ detectPc' = "awaitingFallback"
              /\ detectSent' = detectSent + 1
              /\ UNCHANGED <<detectConfig, detectRes>>
         ELSE DetectAdvance
    /\ UNCHANGED <<detectReceived, bestConfidence, bestLanguage, bestTranscript>>
    /\ UNCHANGED outsideDetect

\* The request without 'auto' resolves: keep the best, then continue.
FallbackResolved ==
    /\ detectPc = "awaitingFallback"
    /\ \E response \in DetectResponses : KeepBest(response)
    /\ DetectAdvance
    /\ UNCHANGED outsideDetect

\* The request without 'auto' rejects: continue.
FallbackRejected ==
    /\ detectPc = "awaitingFallback"
    /\ DetectAdvance
    /\ UNCHANGED <<detectReceived, bestConfidence, bestLanguage, bestTranscript>>
    /\ UNCHANGED outsideDetect

\* After the loop: the answer.
DetectRespond ==
    /\ detectPc = "answer"
    /\ detectRes' = DetectAnswer
    /\ detectPc' = "done"
    /\ UNCHANGED <<detectConfig, detectSent, detectReceived, bestConfidence,
                   bestLanguage, bestTranscript>>
    /\ UNCHANGED outsideDetect

NextDetect ==
    \/ DetectLanguage
    \/ DetectResolved
    \/ DetectRejected
    \/ FallbackResolved
    \/ FallbackRejected
    \/ DetectRespond

SpecDetect == Init /\ [][NextDetect]_vars

\* ------------------------------------------------------------------------
\* connectDb (src/index.js)
\* ------------------------------------------------------------------------
\* The module calls connectDb() once while it loads, so the first attempt is
\* in flight when the server starts to listen: dbPool holds the new pool and
\* isConnected is false.  One connectDb invocation runs at a time in the
\* model: a timer fires when the previous invocation has ended.

\* The most timers pending at once.
MaxTimers == 2

\* The most failed attempts counted.
MaxFailures == 2

\* The database becomes reachable or unreachable.
ReachabilityChanges ==
    /\ dbReachable' = ~dbReachable
    /\ UNCHANGED <<isConnected, dbPool, connectPc, connectTimers, connectFailures>>
    /\ UNCHANGED outsideConn

\* A timer fires and connectDb runs up to its first await: dbPool.close() of
\* the pool in place, or dbPool.connect() of a new pool when there is none.
ConnectDb ==
    /\ connectTimers > 0
    /\ connectPc = "idle"
    /\ connectTimers' = connectTimers - 1
    /\ IF Truthy(dbPool)
       THEN /\ connectPc' = "closing"
            /\ dbPool' = Some("closed")
       ELSE /\ connectPc' = "connecting"
            /\ dbPool' = Some("connecting")
    /\ UNCHANGED <<isConnected, dbReachable, connectFailures>>
    /\ UNCHANGED outsideConn

\* dbPool.close() resolves: a new pool is created and its connect awaited.
CloseResolved ==
    /\ connectPc = "closing"
    /\ dbPool' = Some("connecting")
    /\ connectPc' = "connecting"
    /\ UNCHANGED <<isConnected, connectTimers, dbReachable, connectFailures>>
    /\ UNCHANGED outsideConn

\* dbPool.connect() resolves: isConnected = true, then createTablesIfNotExist.
ConnectResolved ==
    /\ connectPc = "connecting"
    /\ dbReachable
    /\ dbPool' = Some("connected")
    /\ isConnected' = TRUE
    /\ connectPc' = "tables"
    /\ UNCHANGED <<connectTimers, dbReachable, connectFailures>>
    /\ UNCHANGED outsideConn

\* The catch block without its setTimeout.
ConnectRejectedNoTimer ==
    /\ connectPc = "connecting"
    /\ ~dbReachable
    /\ dbPool' = Some("failed")
    /\ isConnected' = FALSE
    /\ connectTimers' = connectTimers
    /\ connectPc' = "idle"
    /\ connectFailures' =
         IF connectFailures < MaxFailures THEN connectFailures + 1 ELSE connectFailures
    /\ UNCHANGED dbReachable
    /\ UNCHANGED outsideConn

\* dbPool.connect() rejects: the catch block sets isConnected = false and
\* schedules connectDb after 10 s.
ConnectRejected ==
    /\ connectPc = "connecting"
    /\ ~dbReachable
    /\ dbPool' = Some("failed")
    /\ isConnected' = FALSE
    /\ connectTimers' = connectTimers + 1
    /\ connectPc' = "idle"
    /\ connectFailures' =
         IF connectFailures < MaxFailures THEN connectFailures + 1 ELSE connectFailures
    /\ UNCHANGED dbReachable
    /\ UNCHANGED outsideConn

\* createTablesIfNotExist returns (it catches its own errors) and the
\* invocation ends.
TablesDone ==
    /\ connectPc = "tables"
    /\ connectPc' = "idle"
    /\ UNCHANGED <<isConnected, dbPool, connectTimers, dbReachable, connectFailures>>
    /\ UNCHANGED outsideConn

\* The pool emits 'error': isConnected = false, and connectDb is scheduled
\* after 5 s when the code is ETIMEDOUT, ECONNRESET or ECONNCLOSED.
PoolError ==
    /\ dbPool = Some("connected")
    /\ isConnected' = FALSE
    /\ \E reconnect \in BOOLEAN :
         IF reconnect
         THEN /\ connectTimers < MaxTimers
              /\ connectTimers' = connectTimers + 1
         ELSE connectTimers' = connectTimers
    /\ UNCHANGED <<dbPool, connectPc, dbReachable, connectFailures>>
    /\ UNCHANGED outsideConn

NextConnect ==
    \/ ReachabilityChanges
    \/ ConnectDb
    \/ CloseResolved
    \/ ConnectResolved
    \/ ConnectRejected
    \/ TablesDone
    \/ PoolError

\* The timers fire and the awaited promises settle.
SpecConnect ==
    /\ Init
    /\ [][NextConnect]_vars
    /\ WF_vars(ConnectDb)
    /\ WF_vars(CloseResolved)
    /\ WF_vars(ConnectResolved)
    /\ WF_vars(ConnectRejected)
    /\ WF_vars(TablesDone)

\* ------------------------------------------------------------------------
\* /api/signup, /api/login and /api/get-doctor-acs-id (src/index.js)
\* ------------------------------------------------------------------------

\* The id the doctor query asks for.
DoctorId == 9

\* bcrypt.hash(password, 10): a digest, not the password.
Hash(password) == [salt |-> "s", of |-> password]

\* bcrypt.compare(password, digest)
Compare(password, digest) == digest = Hash(password)

\* A body with every field the two handlers read.
Body(name, email, password, userType, specialization, hospital) ==
    [name |-> name, email |-> email, password |-> password,
     userType |-> userType, specialization |-> specialization,
     hospital |-> hospital]

\* The bodies /api/signup receives in the model: three complete ones, two
\* of them for the same email, and one for each 400 answer.
SignupBodies ==
    {Body(TRUE, Some("a@x"), Some("p"), Some("doctor"), TRUE, TRUE),
     Body(TRUE, Some("a@x"), Some("q"), Some("patient"), FALSE, FALSE),
     Body(TRUE, Some("b@x"), Some("p"), Some("patient"), FALSE, FALSE),
     Body(FALSE, Some("a@x"), Some("p"), Some("patient"), FALSE, FALSE),
     Body(TRUE, Some("a@x"), Some("p"), Some("doctor"), TRUE, FALSE),
     Body(TRUE, Some("a@x"), Some("p"), Some("nurse"), FALSE, FALSE)}

\* The bodies /api/login receives in the model.
LoginBodies ==
    {Body(FALSE, Some(e), Some(p), Some(t), FALSE, FALSE) :
        e \in {"a@x", "b@x"}, p \in {"p", "q"}, t \in {"doctor", "patient"}}
    \cup {Body(FALSE, Some("a@x"), None, Some("doctor"), FALSE, FALSE),
          Body(FALSE, Some("a@x"), Some("p"), Some("nurse"), FALSE, FALSE)}

\* res.status(status).json({error or message, id})
Reply(status, message, id) ==
    Some([status |-> status, message |-> message, id |-> id])

\* ['admin', 'doctor', 'patient']
UserTypes == {"admin", "doctor", "patient"}

\* The 400 answers of /api/signup: None when the body passes.
SignupValidation(body) ==
    IF ~body.name \/ ~Truthy(body.email) \/ ~Truthy(body.password)
       \/ ~Truthy(body.userType)
    THEN Reply(400, "Missing required fields", None)
    ELSE IF body.userType = Some("doctor")
            /\ (~body.specialization \/ ~body.hospital)
    THEN Reply(400, "Specialization and hospital required for doctors", None)
    ELSE IF body.userType[1] \notin UserTypes
    THEN Reply(400, "Invalid user type", None)
    ELSE None

\* The 400 answers of /api/login: None when the body passes.
LoginValidation(body) ==
    IF ~Truthy(body.email) \/ ~Truthy(body.password) \/ ~Truthy(body.userType)
    THEN Reply(400, "Missing required fields", None)
    ELSE IF body.userType[1] \notin UserTypes
    THEN Reply(400, "Invalid user type", None)
    ELSE None

\* checkDbConnection calls next() on the test of the pool alone.
checkDbConnectionPoolOnly == Truthy(dbPool)

\* checkDbConnection calls next(): isConnected && dbPool.
checkDbConnection == isConnected /\ Truthy(dbPool)

\* The 503 answer of checkDbConnection.
Unavailable ==
    Reply(503, "Database connection not available. Please try again later.", None)

\* A query can resolve only on a connected pool; it may reject on any.
QueryOutcomes == IF dbPool = Some("connected") THEN {"resolved", "rejected"}
                 ELSE {"rejected"}

\* The ids of the rows a SELECT ... WHERE email = @email returns.
RowsByEmail(email) == {k \in 1..Len(users) : users[k].email = email}

\* The ids of the rows the login SELECT returns.
RowsByEmailAndType(email, userType) ==
    {k \in 1..Len(users) : users[k].email = email /\ users[k].user_type = userType}

\* The request q is answered: its handler is over.
Answer(q, response) ==
    /\ reqRes' = [reqRes EXCEPT ![q] = response]
    /\ reqPc' = [reqPc EXCEPT ![q] = "done"]

\* A request arrives at `route` with `body`: checkDbConnection, then the
\* handler up to its first query, whose validation answers `invalid`.
Arrive(q, route, body, invalid) ==
    /\ reqPc[q] = "idle"
    /\ reqRoute' = [reqRoute EXCEPT ![q] = route]
    /\ reqBody' = [reqBody EXCEPT ![q] = body]
    /\ IF ~checkDbConnection
       THEN /\ Answer(q, Unavailable)
            /\ UNCHANGED reqQueries
       ELSE IF Truthy(invalid)
       THEN /\ Answer(q, invalid)
            /\ UNCHANGED reqQueries
       ELSE /\ reqPc' = [reqPc EXCEPT ![q] = "selecting"]
            /\ reqQueries' = [reqQueries EXCEPT ![q] = 1]
            /\ UNCHANGED reqRes
    /\ UNCHANGED <<users, acsIdentities, reqAcsUserId, reqError>>
    /\ UNCHANGED outsideUser

\* POST /api/signup
Signup(q) ==
    \E body \in SignupBodies : Arrive(q, "signup", body, SignupValidation(body))

\* POST /api/login
Login(q) ==
    \E body \in LoginBodies : Arrive(q, "login", body, LoginValidation(body))

\* GET /api/get-doctor-acs-id
GetDoctorAcsId(q) == Arrive(q, "get-doctor-acs-id", NoBody, None)

\* The handler's catch block: 500.
Caught(q, error, message) ==
    /\ reqError' = [reqError EXCEPT ![q] = Some(error)]
    /\ Answer(q, Reply(500, message, None))

\* The existence check of signup settles: 400 when a row has the email, else
\* the password is hashed and identityClient.createUser() awaited.
SignupSelected(q) ==
    /\ reqRoute[q] = "signup"
    /\ reqPc[q] = "selecting"
    /\ \E outcome \in QueryOutcomes :
         IF outcome = "rejected"
         THEN Caught(q, "query", "Server error occurred")
         ELSE IF RowsByEmail(reqBody[q].email[1]) # {}
         THEN /\ Answer(q, Reply(400, "Email already exists", None))
              /\ UNCHANGED reqError
         ELSE /\ reqPc' = [reqPc EXCEPT ![q] = "creatingIdentity"]
              /\ UNCHANGED <<reqRes, reqError>>
    /\ UNCHANGED <<users, acsIdentities, reqRoute, reqBody, reqQueries, reqAcsUserId>>
    /\ UNCHANGED outsideUser

\* identityClient.createUser() settles: the INSERT is issued, or 500.
IdentityCreated(q) ==
    /\ reqRoute[q] = "signup"
    /\ reqPc[q] = "creatingIdentity"
    /\ \E created \in BOOLEAN :
         IF created
         THEN /\ acsIdentities' = acsIdentities + 1
              /\ reqAcsUserId' = [reqAcsUserId EXCEPT ![q] = Some(acsIdentities + 1)]
              /\ reqQueries' = [reqQueries EXCEPT ![q] = @ + 1]
              /\ reqPc' = [reqPc EXCEPT ![q] = "inserting"]
              /\ UNCHANGED <<reqRes, reqError>>
         ELSE /\ Caught(q, "identity", "Server error occurred")
              /\ UNCHANGED <<acsIdentities, reqAcsUserId, reqQueries>>
    /\ UNCHANGED <<users, reqRoute, reqBody>>
    /\ UNCHANGED outsideUser

\* The row signup inserts.
NewRow(q) ==
    [email |-> reqBody[q].email[1],
     password |-> Hash(reqBody[q].password[1]),
     user_type |-> reqBody[q].userType[1],
     acs_user_id |-> reqAcsUserId[q][1]]

\* The INSERT settles: 201 with the new id, or 500 when the query rejects,
\* as it does on a row with the same email (email is UNIQUE).
SignupInserted(q) ==
    /\ reqRoute[q] = "signup"
    /\ reqPc[q] = "inserting"
    /\ \E outcome \in QueryOutcomes :
         IF outcome = "rejected"
         THEN /\ Caught(q, "query", "Server error occurred")
              /\ UNCHANGED users
         ELSE IF RowsByEmail(reqBody[q].email[1]) # {}
         THEN /\ Caught(q, "unique", "Server error occurred")
              /\ UNCHANGED users
         ELSE /\ users' = Append(users, NewRow(q))
              /\ Answer(q, Reply(201, "User created successfully",
                                 Some(Len(users) + 1)))
              /\ UNCHANGED reqError
    /\ UNCHANGED <<acsIdentities, reqRoute, reqBody, reqQueries, reqAcsUserId>>
    /\ UNCHANGED outsideUser

\* The answer of login to the rows its SELECT returned, with 404 for an
\* email that has no row.
LoginAnswerTellsUnknown(body) ==
    LET rows == RowsByEmailAndType(body.email[1], body.userType[1])
        id == CHOOSE k \in rows : \A j \in rows : k <= j
    IN  IF RowsByEmail(body.email[1]) = {}
        THEN Reply(404, "User not found", None)
        ELSE IF rows = {}
        THEN Reply(401, "Invalid credentials", None)
        ELSE IF ~Compare(body.password[1], users[id].password)
        THEN Reply(401, "Invalid credentials", None)
        ELSE Reply(200, "Login successful", Some(id))

\* The answer of login to the rows its SELECT returned.
LoginAnswer(body) ==
    LET rows == RowsByEmailAndType(body.email[1], body.userType[1])
        id == CHOOSE k \in rows : \A j \in rows : k <= j
    IN  IF rows = {}
        THEN Reply(401, "Invalid credentials", None)
        ELSE IF ~Compare(body.password[1], users[id].password)
        THEN Reply(401, "Invalid credentials", None)
        ELSE Reply(200, "Login successful", Some(id))

\* The SELECT of login settles and the password is compared.
LoginSelected(q) ==
    /\ reqRoute[q] = "login"
    /\ reqPc[q] = "selecting"
    /\ \E outcome \in QueryOutcomes :
         IF outcome = "rejected"
         THEN Caught(q, "query", "Server error occurred")
         ELSE /\ Answer(q, LoginAnswer(reqBody[q]))
              /\ UNCHANGED reqError
    /\ UNCHANGED <<users, acsIdentities, reqRoute, reqBody, reqQueries, reqAcsUserId>>
    /\ UNCHANGED outsideUser

\* The SELECT of /api/get-doctor-acs-id settles.
DoctorSelected(q) ==
    /\ reqRoute[q] = "get-doctor-acs-id"
    /\ reqPc[q] = "selecting"
    /\ \E outcome \in QueryOutcomes :
         IF outcome = "rejected"
         THEN Caught(q, "query", "Server error")
         ELSE /\ IF DoctorId \in 1..Len(users) /\ users[DoctorId].user_type = "doctor"
                 THEN Answer(q, Reply(200, "acsUserId", Some(users[DoctorId].acs_user_id)))
                 ELSE Answer(q, Reply(404, "Doctor not found", None))
              /\ UNCHANGED reqError
    /\ UNCHANGED <<users, acsIdentities, reqRoute, reqBody, reqQueries, reqAcsUserId>>
    /\ UNCHANGED outsideUser

\* A step of the request q.
RequestStep(q) ==
    \/ Signup(q)
    \/ Login(q)
    \/ GetDoctorAcsId(q)
    \/ SignupSelected(q)
    \/ IdentityCreated(q)
    \/ SignupInserted(q)
    \/ LoginSelected(q)
    \/ DoctorSelected(q)

\* The requests in flight together while the connection comes and goes.
NextUsers == NextConnect \/ \E q \in Requests : RequestStep(q)

SpecUsers == Init /\ [][NextUsers]_vars

\* ------------------------------------------------------------------------
\* Notions the properties are stated with
\* ------------------------------------------------------------------------

\* The response is a transcript (HTTP 200).
Answered == pc = "done" /\ res # None /\ res[1].hasTranscript

\* The whitespace-separated tokens of a text.
Tokens(s) == SelectSeq(Split(s, SP), LAMBDA piece : piece # <<>>)

\* A word text with no character other than whitespace.
IsBlank(text) == \A p \in 1..Len(text) : text[p] = SP

RECURSIVE NonBlankFrom(_, _)
\* The positions from k on of the words with non-blank text, in order.
NonBlankFrom(ws, k) ==
    IF k > Len(ws) THEN <<>>
    ELSE (IF IsBlank(ws[k].word) THEN <<>> ELSE <<k>>) \o NonBlankFrom(ws, k + 1)

NonBlankPositions(ws) == NonBlankFrom(ws, 1)

RECURSIVE TokensWithLabels(_)
\* The tokens of a list of utterances in order, each with the speaker label
\* of its utterance.
TokensWithLabels(utterances) ==
    IF utterances = <<>> THEN <<>>
    ELSE LET u == Head(utterances)
             toks == Tokens(u.transcript)
         IN  [t \in 1..Len(toks) |-> [token |-> toks[t], speaker |-> u.speaker]]
             \o TokensWithLabels(Tail(utterances))

AllTokens(utterances) ==
    LET tl == TokensWithLabels(utterances) IN [t \in 1..Len(tl) |-> tl[t].token]

RECURSIVE ForwardPass(_, _, _, _)
\* A single forward pass over the words that carries the last seen tag:
\* acc collects the carried tag after each word.
ForwardPass(ws, k, last, acc) ==
    IF k > Len(ws) THEN acc
    ELSE LET t == IF ws[k].speakerTag # None THEN ws[k].speakerTag[1] ELSE last
         IN  ForwardPass(ws, k + 1, t, Append(acc, t))

LastSeenTags(ws) == ForwardPass(ws, 1, 1, <<>>)

\* The tag of the nearest word at or before k that carries one, 1 if none.
NearestTag(ws, k) ==
    LET tagged == {j \in 1..k : ws[j].speakerTag # None}
    IN  IF tagged = {} THEN 1
        ELSE ws[CHOOSE j \in tagged : \A j2 \in tagged : j2 <= j].speakerTag[1]

\* ------------------------------------------------------------------------
\* C1  The tokens of the utterances of the response, read in order, are the
\*     texts of the non-blank input words in input order: nothing is
\*     dropped, duplicated or reordered, and the counts agree.
\* ------------------------------------------------------------------------
C1_WordsPreserved ==
    Answered =>
        LET toks == AllTokens(res[1].transcript)
            kept == NonBlankPositions(words)
        IN  /\ Len(toks) = Len(kept)
            /\ \A t \in 1..Len(kept) : toks[t] = words[kept[t]].word

\* A response after a merge, built from words of which one is blank.
C1_Witness ==
    /\ Answered
    /\ Len(mergedTranscript) < Len(transcriptBySpeaker)
    /\ Len(NonBlankPositions(words)) >= 2
    /\ \E p \in 1..Len(words) : IsBlank(words[p].word)
    /\ \E p, q \in 1..Len(words) :
          ~IsBlank(words[p].word) /\ ~IsBlank(words[q].word)
          /\ words[p].word # words[q].word

\* ------------------------------------------------------------------------
\* C2  Every utterance of the response has a non-empty transcript, and so
\*     has every utterance the word loop emits and the merge pass handles.
\* ------------------------------------------------------------------------
C2_NonEmptyTranscripts ==
    /\ \A k \in 1..Len(transcriptBySpeaker) : transcriptBySpeaker[k].transcript # <<>>
    /\ \A k \in 1..Len(mergedTranscript) : mergedTranscript[k].transcript # <<>>
    /\ Answered => \A k \in 1..Len(res[1].transcript) :
                       res[1].transcript[k].transcript # <<>>

\* A response with an utterance, built from words whose second word forms
\* an all-whitespace segment of its own.
C2_Witness ==
    /\ Answered
    /\ Len(res[1].transcript) >= 1
    /\ Len(words) = 3
    /\ IsBlank(words[2].word)
    /\ NearestTag(words, 2) # NearestTag(words, 1)
    /\ NearestTag(words, 2) # NearestTag(words, 3)

\* ------------------------------------------------------------------------
\* C3  The tag the loop resolves for a word is the tag of the nearest word
\*     at or before it that carries one, and 1 when there is none; it is
\*     the tag a single forward pass carrying the last seen tag gives.
\* ------------------------------------------------------------------------
C3_TagResolution ==
    (pc = "loop" /\ i > 1) =>
        /\ currentSpeakerTag = Some(NearestTag(words, i - 1))
        /\ currentSpeakerTag = Some(LastSeenTags(words)[i - 1])
        /\ \A k \in 1..Len(words) : ResolveTag(words, k) = LastSeenTags(words)[k]

\* The loop has resolved an untagged third word that follows two words
\* tagged differently.
C3_Witness ==
    /\ pc = "loop"
    /\ i = 4
    /\ words[3].speakerTag = None
    /\ words[1].speakerTag # None
    /\ words[2].speakerTag # None
    /\ words[1].speakerTag # words[2].speakerTag

\* ------------------------------------------------------------------------
\* C4  Before the merge pass the segments are the maximal runs of
\*     consecutive words with equal resolved tag: while the loop runs, the
\*     open segment holds the words of the run that ends at the last word
\*     read; when the merge pass starts, the list holds, in order, the
\*     utterance of every run whose transcript is not empty, the last run
\*     included.
\* ------------------------------------------------------------------------

\* First position of the maximal run of equally tagged words that holds k.
RunStart(ws, k) ==
    LET tags == LastSeenTags(ws)
    IN  CHOOSE s \in 1..k :
            /\ \A p \in s..k : tags[p] = tags[k]
            /\ s = 1 \/ tags[s - 1] # tags[k]

\* Last position of the maximal run that starts at s.
RunEnd(ws, s) ==
    LET tags == LastSeenTags(ws)
    IN  CHOOSE e \in s..Len(ws) :
            /\ \A p \in s..e : tags[p] = tags[s]
            /\ e = Len(ws) \/ tags[e + 1] # tags[s]

\* The utterance of the run s..e.
RunUtterance(ws, s, e) ==
    LET ends == {p \in s..e : ws[p].endTime # None}
    IN  [speaker |-> SpeakerLabel(LastSeenTags(ws)[s]),
         transcript |-> Trim(Join([p \in 1..(e - s + 1) |-> ws[s + p - 1].word], <<SP>>)),
         startTime |-> ws[s].startTime,
         endTime |-> IF ends = {} THEN None
                     ELSE ws[CHOOSE p \in ends : \A q \in ends : q <= p].endTime]

RECURSIVE RunUtterancesFrom(_, _)
RunUtterancesFrom(ws, s) ==
    IF s > Len(ws) THEN <<>>
    ELSE LET e == RunEnd(ws, s)
             u == RunUtterance(ws, s, e)
         IN  (IF u.transcript # <<>> THEN <<u>> ELSE <<>>)
             \o RunUtterancesFrom(ws, e + 1)

\* The utterances of the maximal runs of ws, runs of blank words left out.
RunUtterances(ws) == RunUtterancesFrom(ws, 1)

C4_SegmentsAreMaximalRuns ==
    /\ (pc = "loop" /\ i > 1) =>
           currentSegment.words = SubSeq(words, RunStart(words, i - 1), i - 1)
    /\ (pc = "merge" /\ i = 1) => transcriptBySpeaker = RunUtterances(words)

\* The merge pass starts on two utterances built from three words.
C4_Witness ==
    /\ pc = "merge"
    /\ i = 1
    /\ Len(words) = 3
    /\ Len(transcriptBySpeaker) = 2

\* ------------------------------------------------------------------------
\* C5  In the merge pass an utterance that is not the last is merged into
\*     its successor exactly when its transcript, as it stands when visited,
\*     has fewer than 3 whitespace-separated tokens and the successor has
\*     the same speaker label; on a merge the successor's transcript becomes
\*     current + one space + successor and the current utterance is not
\*     emitted; every other utterance is emitted with its transcript
\*     unchanged.
\* ------------------------------------------------------------------------
C5_MergeRule ==
    [][(pc = "merge" /\ i <= Len(transcriptBySpeaker)) =>
          LET current == transcriptBySpeaker[i]
              merges == /\ i < Len(transcriptBySpeaker)
                        /\ Len(Tokens(current.transcript)) < 3
                        /\ current.speaker = transcriptBySpeaker[i + 1].speaker
          IN  IF merges
              THEN /\ transcriptBySpeaker'[i + 1].transcript =
                          current.transcript \o <<SP>>
                              \o transcriptBySpeaker[i + 1].transcript
                   /\ mergedTranscript' = mergedTranscript
              ELSE /\ mergedTranscript' =
                          Append(mergedTranscript,
                                 [speaker |-> current.speaker,
                                  transcript |-> current.transcript])
                   /\ transcriptBySpeaker' = transcriptBySpeaker]_vars

\* ------------------------------------------------------------------------
\* C6  Three consecutive utterances with the same speaker label, each with
\*     fewer than 3 tokens, come out of the merge pass as one utterance.
\* ------------------------------------------------------------------------

RECURSIVE TokenOwnersFrom(_, _)
\* For every token of the utterances from position k on, in order, the
\* position of the utterance that holds it.
TokenOwnersFrom(utterances, k) ==
    IF k > Len(utterances) THEN <<>>
    ELSE [t \in 1..Len(Tokens(utterances[k].transcript)) |-> k]
         \o TokenOwnersFrom(utterances, k + 1)

TokenOwners(utterances) == TokenOwnersFrom(utterances, 1)

\* The tokens of utterances k, k+1 and k+2 of the list before the merge all
\* lie in one utterance of the response.
EmittedAsOne(before, k) ==
    LET from == TokenOwners(before)
        to == TokenOwners(res[1].transcript)
        mine == {t \in 1..Len(from) : from[t] \in k..(k + 2)}
    IN  /\ Len(from) = Len(to)
        /\ \A t, u \in mine : to[t] = to[u]

TokenCount(utterance) == Len(Tokens(utterance.transcript))

\* Utterances k, k+1 and k+2 have the same speaker label.
SameSpeakerTriple(before, k) ==
    /\ k + 2 <= Len(before)
    /\ before[k].speaker = before[k + 1].speaker
    /\ before[k + 1].speaker = before[k + 2].speaker

\* The claim as stated.
C6_ShortTripleMerged ==
    Answered =>
        LET before == RunUtterances(words)
        IN  \A k \in 1..Len(before) :
                (/\ SameSpeakerTriple(before, k)
                 /\ \A j \in k..(k + 2) : TokenCount(before[j]) < 3)
                => EmittedAsOne(before, k)

\* Amended: the first two of the three have one token each, and the first
\* does not follow an utterance of the same speaker.
C6_SingleTokenTripleMerged ==
    Answered =>
        LET before == RunUtterances(words)
        IN  \A k \in 1..Len(before) :
                (/\ SameSpeakerTriple(before, k)
                 /\ TokenCount(before[k]) = 1
                 /\ TokenCount(before[k + 1]) = 1
                 /\ TokenCount(before[k + 2]) < 3
                 /\ k = 1 \/ before[k - 1].speaker # before[k].speaker)
                => EmittedAsOne(before, k)

\* A response built from three same-speaker utterances of one, one and two
\* tokens.
C6_Witness ==
    /\ Answered
    /\ LET before == RunUtterances(words)
       IN  /\ Len(before) = 3
           /\ SameSpeakerTriple(before, 1)
           /\ TokenCount(before[1]) = 1
           /\ TokenCount(before[2]) = 1
           /\ TokenCount(before[3]) = 2
           /\ Len(res[1].transcript) = 1

\* ------------------------------------------------------------------------
\* C7  No transcript of the response has a leading space, a trailing space
\*     or two consecutive spaces.
\* ------------------------------------------------------------------------
SingleSpaced(text) ==
    /\ text # <<>> => text[1] # SP /\ text[Len(text)] # SP
    /\ \A p \in 1..(Len(text) - 1) : ~(text[p] = SP /\ text[p + 1] = SP)

C7_SingleSpaced ==
    Answered =>
        \A k \in 1..Len(res[1].transcript) : SingleSpaced(res[1].transcript[k].transcript)

\* ------------------------------------------------------------------------
\* C8  The startTime of the successor when utterance i is merged into it.
\* ------------------------------------------------------------------------

\* The step from the current state merges utterance i into utterance i+1.
MergesNow ==
    /\ pc = "merge"
    /\ i < Len(transcriptBySpeaker)
    /\ i' = i + 1
    /\ mergedTranscript' = mergedTranscript

\* The claim as stated: the successor takes the startTime of utterance i
\* only if it had none, and keeps its own otherwise.
C8_StartTimeOnlyIfAbsent ==
    [][MergesNow =>
          transcriptBySpeaker'[i + 1].startTime =
              IF transcriptBySpeaker[i + 1].startTime = None
              THEN transcriptBySpeaker[i].startTime
              ELSE transcriptBySpeaker[i + 1].startTime]_vars

\* Amended: the successor takes the startTime of utterance i whenever
\* utterance i has one, whether or not the successor had one; it keeps its
\* own only when utterance i has none.
C8_StartTimeOfCurrentWins ==
    [][MergesNow =>
          transcriptBySpeaker'[i + 1].startTime =
              IF transcriptBySpeaker[i].startTime # None
              THEN transcriptBySpeaker[i].startTime
              ELSE transcriptBySpeaker[i + 1].startTime]_vars

\* The first utterance has been merged into the second, both had a
\* startTime of their own, and the second now carries that of the first.
C8_Witness ==
    /\ pc = "merge"
    /\ i = 2
    /\ mergedTranscript = <<>>
    /\ Len(transcriptBySpeaker) >= 2
    /\ transcriptBySpeaker[1].startTime # None
    /\ RunUtterances(words)[2].startTime # None
    /\ RunUtterances(words)[2].startTime # transcriptBySpeaker[1].startTime
    /\ transcriptBySpeaker[2].startTime = transcriptBySpeaker[1].startTime

\* ------------------------------------------------------------------------
\* C9  Every utterance of the response carries the speaker label of the
\*     resolved tag of each word in it: the token of every non-blank word
\*     lies in an utterance labelled with that word's speaker.
\* ------------------------------------------------------------------------
C9_SpeakerOfEveryWord ==
    Answered =>
        LET toks == TokensWithLabels(res[1].transcript)
            kept == NonBlankPositions(words)
        IN  /\ Len(toks) = Len(kept)
            /\ \A t \in 1..Len(kept) :
                   toks[t].speaker = SpeakerLabel(NearestTag(words, kept[t]))

\* A response of two utterances of different speakers, the first of them a
\* single token.
C9_Witness ==
    /\ Answered
    /\ Len(res[1].transcript) = 2
    /\ res[1].transcript[1].speaker # res[1].transcript[2].speaker
    /\ TokenCount(res[1].transcript[1]) = 1

\* ------------------------------------------------------------------------
\* C10 When the response used carries results but no words, the handler
\*     answers 200 with an empty transcript, not an error.
\* ------------------------------------------------------------------------
C10_NoWordsAnswered ==
    [][(/\ pc = "check"
        /\ finalResponse # None
        /\ finalResponse[1].hasResults
        /\ \A k \in 1..Len(finalResponse[1].results) :
               \/ ~finalResponse[1].results[k].hasWords
               \/ finalResponse[1].results[k].words = <<>>)
       => (/\ pc' = "done"
           /\ res' # None
           /\ res'[1].status = 200
           /\ res'[1].hasTranscript
           /\ res'[1].transcript = <<>>)]_vars

\* The handler has answered an empty transcript for an empty word sequence.
C10_Witness ==
    /\ pc = "done"
    /\ words = <<>>
    /\ res # None
    /\ res[1].status = 200
    /\ res[1].hasTranscript
    /\ res[1].transcript = <<>>

\* ------------------------------------------------------------------------
\* C11 When no word carries a speaker tag and at least one word has
\*     non-blank text, the response is exactly one utterance, labelled
\*     "Speaker 1", whose tokens are the non-blank words in order.
\* ------------------------------------------------------------------------

\* No word of ws carries a speaker tag.
AllUntagged(ws) == \A p \in 1..Len(ws) : ws[p].speakerTag = None

\* The texts of the non-blank words of ws, in order.
NonBlankTexts(ws) ==
    LET kept == NonBlankPositions(ws) IN [t \in 1..Len(kept) |-> ws[kept[t]].word]

C11_UntaggedOneSpeaker ==
    (Answered /\ AllUntagged(words) /\ NonBlankPositions(words) # <<>>) =>
        /\ Len(res[1].transcript) = 1
        /\ res[1].transcript[1].speaker = <<"Speaker ", 1>>
        /\ Tokens(res[1].transcript[1].transcript) = NonBlankTexts(words)

\* A response built from three untagged words, one of them blank and the
\* other two different.
C11_Witness ==
    /\ Answered
    /\ Len(words) = 3
    /\ AllUntagged(words)
    /\ \E p \in 1..3 : IsBlank(words[p].word)
    /\ \E p, q \in 1..3 :
          ~IsBlank(words[p].word) /\ ~IsBlank(words[q].word)
          /\ words[p].word # words[q].word

\* ------------------------------------------------------------------------
\* C12 A segment all of whose words have whitespace-only text is dropped
\*     when it is closed: the list the merge pass starts on holds one
\*     utterance for every run with a non-blank word and none for a blank
\*     run, and the transcripts of the response, joined with single spaces,
\*     are the transcripts of the non-blank runs joined with single spaces,
\*     so that a blank run is neither emitted nor merged and adds no
\*     character.
\* ------------------------------------------------------------------------

RECURSIVE RunBoundsFrom(_, _)
\* The maximal runs of equally tagged words from position s on, each as
\* <<first, last>>.
RunBoundsFrom(ws, s) ==
    IF s > Len(ws) THEN <<>>
    ELSE LET e == RunEnd(ws, s) IN <<(<<s, e>>)>> \o RunBoundsFrom(ws, e + 1)

\* Every word of the run has whitespace-only text.
BlankRun(ws, run) == \A p \in run[1]..run[2] : IsBlank(ws[p].word)

\* The runs of ws that hold a word with non-blank text.
NonBlankRuns(ws) ==
    SelectSeq(RunBoundsFrom(ws, 1), LAMBDA run : ~BlankRun(ws, run))

\* The texts joined by single spaces, ends trimmed.
RunText(ws, run) ==
    Trim(Join([p \in 1..(run[2] - run[1] + 1) |-> ws[run[1] + p - 1].word], <<SP>>))

C12_BlankSegmentDropped ==
    /\ (pc = "merge" /\ i = 1) =>
           LET runs == NonBlankRuns(words)
           IN  /\ Len(transcriptBySpeaker) = Len(runs)
               /\ \A k \in 1..Len(runs) :
                      transcriptBySpeaker[k].transcript = RunText(words, runs[k])
    /\ Answered =>
           LET runs == NonBlankRuns(words)
               out == res[1].transcript
           IN  Join([k \in 1..Len(out) |-> out[k].transcript], <<SP>>)
                   = Join([k \in 1..Len(runs) |-> RunText(words, runs[k])], <<SP>>)

\* A response built from three words of which the second, a blank of one
\* space, is a segment of its own between two words of one other speaker.
C12_Witness ==
    /\ Answered
    /\ Len(words) = 3
    /\ words[2].word = <<SP>>
    /\ ~IsBlank(words[1].word)
    /\ ~IsBlank(words[3].word)
    /\ NearestTag(words, 2) # NearestTag(words, 1)
    /\ NearestTag(words, 3) = NearestTag(words, 1)
    /\ Len(res[1].transcript) = 1

\* ------------------------------------------------------------------------
\* C13 Every element of the transcript of the response has exactly the
\*     fields speaker and transcript, its speaker is "Speaker " followed by
\*     the resolved tag of a word, and no startTime or endTime appears,
\*     whether or not the utterance comes from a merge.
\* ------------------------------------------------------------------------
C13_OnlySpeakerAndTranscript ==
    /\ \A k \in 1..Len(mergedTranscript) :
           DOMAIN mergedTranscript[k] = {"speaker", "transcript"}
    /\ Answered =>
           \A k \in 1..Len(res[1].transcript) :
               LET u == res[1].transcript[k]
               IN  /\ DOMAIN u = {"speaker", "transcript"}
                   /\ \E p \in 1..Len(words) :
                          u.speaker = <<"Speaker ", NearestTag(words, p)>>

\* A response of one utterance that comes from a merge of two utterances
\* which both carried times.
C13_Witness ==
    /\ Answered
    /\ Len(res[1].transcript) = 1
    /\ Len(transcriptBySpeaker) = 2
    /\ transcriptBySpeaker[1].startTime # None
    /\ transcriptBySpeaker[2].endTime # None

\* ------------------------------------------------------------------------
\* C14 The transcript builder is total: whenever the fallback loop has
\*     ended with a response that carries results, whatever its words, the
\*     word loop and the merge pass terminate and the handler answers with
\*     a transcript (status 200), never through the catch block.
\* ------------------------------------------------------------------------
C14_BuilderTotal ==
    (pc = "check" /\ ~NoUsableResult(finalResponse)) ~> Answered

\* A transcript has been answered for three words of which one is blank,
\* one is tagged and one is untagged, one carries times, after a merge pass
\* over two utterances.
C14_Witness ==
    /\ Answered
    /\ res[1].status = 200
    /\ Len(words) = 3
    /\ Len(transcriptBySpeaker) = 2
    /\ \E p \in 1..3 : IsBlank(words[p].word)
    /\ \E p \in 1..3 : words[p].speakerTag = None
    /\ \E p \in 1..3 : words[p].speakerTag # None

\* ------------------------------------------------------------------------
\* C15 Once a request has gone upstream, the handler answers 500 exactly
\*     when the fallback loop ends with no response that carries a results
\*     field; when the response left carries results but no words it
\*     answers 200 with an empty transcript, and so it does when the words
\*     are all blank.
\* ------------------------------------------------------------------------

\* The fallback loop has ended and left a response with a results field.
ResultsLeft == finalResponse # None /\ finalResponse[1].hasResults

C15_ErrorOnlyWithoutResults ==
    [][/\ (pc # "idle" /\ res' # None /\ res = None) =>
              (res'[1].status = 500 <=> (pc = "check" /\ ~ResultsLeft))
       /\ (pc = "check" /\ ~ResultsLeft) =>
              (pc' = "done" /\ res' # None /\ res'[1].status = 500
               /\ ~res'[1].hasTranscript)
       /\ (pc = "check" /\ ResultsLeft) =>
              IF \A k \in 1..Len(finalResponse[1].results) :
                     \/ ~finalResponse[1].results[k].hasWords
                     \/ finalResponse[1].results[k].words = <<>>
              THEN /\ pc' = "done"
                   /\ res' = TranscriptReply(<<>>)
              ELSE /\ pc' = "loop"
                   /\ res' = None
       /\ (pc = "merge" /\ pc' = "done") =>
              /\ res' # None
              /\ res'[1].status = 200
              /\ res'[1].hasTranscript
              /\ NonBlankPositions(words) = <<>> => res'[1].transcript = <<>>
      ]_vars

\* Both attempts were answered, the last response carries no results field,
\* and the handler has answered 500.
C15_Witness ==
    /\ pc = "done"
    /\ res # None
    /\ res[1].status = 500
    /\ res[1].error = "Speech recognition failed"
    /\ res[1].details = "Transcription failed after trying all configs."

\* ------------------------------------------------------------------------
\* C17 retryRequest called with its default arguments sends at most 4
\*     requests and then ends: a response ends it and is returned, so the
\*     response returned is the first one received; a further request is
\*     sent only after a failure with status 429 while retries remain; any
\*     other failure, and a 429 on the 4th request, is thrown to the caller
\*     as it is, with no further request.
\* ------------------------------------------------------------------------
C17_RetryOnlyOn429 ==
    [][/\ posts' <= DefaultRetries + 1
       /\ rpc \notin {"returned", "thrown"}
       /\ (posts' # posts) =>
              /\ posts' = posts + 1
              /\ \/ rpc = "idle"
                 \/ /\ rpc = "waiting"
                    /\ caught # None
                    /\ caught[1].status = Some(429)
                    /\ retries > 0
       /\ (returned' # None) =>
              (rpc = "posting" /\ rpc' = "returned" /\ posts' = posts
               /\ thrown' = None)
       /\ (rpc = "posting" /\ returned' = None) =>
              /\ caught' # None
              /\ (caught'[1].status # Some(429) \/ posts = DefaultRetries + 1) =>
                     (rpc' = "thrown" /\ thrown' = caught' /\ posts' = posts)
              /\ rpc' = "waiting" => (caught'[1].status = Some(429) /\ retries > 0)
      ]_vars

\* The 4th request has failed with status 429 and the failure has been
\* thrown to the caller.
C17_Witness ==
    /\ rpc = "thrown"
    /\ posts = DefaultRetries + 1
    /\ retries = 0
    /\ thrown # None
    /\ thrown[1].status = Some(429)
    /\ thrown = caught

\* ------------------------------------------------------------------------
\* C18 In the helpers with the quota test, a 429 failure whose message
\*     contains 'Quota exceeded' is never retried, whatever the number of
\*     retries left: the helper throws 'API quota exhausted. Please check
\*     your subscription.' and sends no further request.
\* ------------------------------------------------------------------------

\* The step from the current state is the failure of the request in flight
\* with a 429 whose message contains 'Quota exceeded'.
QuotaFailureNow ==
    /\ rpc = "posting"
    /\ HasQuotaTest(helper)
    /\ returned' = None
    /\ caught' # None
    /\ caught'[1].status = Some(429)
    /\ caught'[1].message # None
    /\ Includes(caught'[1].message[1], QuotaExceeded)

C18_QuotaNeverRetried ==
    [][QuotaFailureNow =>
          /\ rpc' = "thrown"
          /\ posts' = posts
          /\ thrown' = Some(QuotaExhausted)]_vars

\* What the code does: the quota error is thrown only while retries remain;
\* with none left the failure itself is thrown.  In both cases no further
\* request is sent.
QuotaThrownWhileRetriesRemain ==
    [][QuotaFailureNow =>
          /\ rpc' = "thrown"
          /\ posts' = posts
          /\ thrown' = IF retries > 0 THEN Some(QuotaExhausted) ELSE caught']_vars

\* ------------------------------------------------------------------------
\* C19 The diarized handler requests WEBM_OPUS and then LINEAR16, each at
\*     most once and in that order; a response with words in its first
\*     result ends the loop at once; and when an attempt returned such a
\*     response, the words the handler works on are those of that response
\*     and the answer, when it comes, is 200 with the utterances built from
\*     them.
\* ------------------------------------------------------------------------

\* The first result of the response carries a words list.
WordsInFirstResult(response) ==
    /\ response.hasResults
    /\ response.results # <<>>
    /\ response.results[1].hasWords

RECURSIVE WordsOfResults(_, _)
\* The words of results k.. of the response, in order.
WordsOfResults(response, k) ==
    IF k > Len(response.results) THEN <<>>
    ELSE (IF response.results[k].hasWords THEN response.results[k].words ELSE <<>>)
         \o WordsOfResults(response, k + 1)

C19_FallbackOrder ==
    [][/\ audioConfigs = <<"WEBM_OPUS", "LINEAR16">>
       /\ (pc' = "awaiting") =>
              /\ pc \in {"idle", "awaiting"}
              /\ attempt' = attempt + 1
              /\ attempt' \in 1..Len(audioConfigs)
       /\ (pc = "awaiting") =>
              /\ attempt \in 1..Len(audioConfigs)
              /\ ~(finalResponse # None /\ WordsInFirstResult(finalResponse[1]))
              /\ (finalResponse' # None /\ WordsInFirstResult(finalResponse'[1])) =>
                     /\ pc' = "check"
                     /\ res' = None
       /\ (pc = "check" /\ finalResponse # None
           /\ WordsInFirstResult(finalResponse[1])) =>
              /\ words' = WordsOfResults(finalResponse[1], 1)
              /\ IF words' = <<>>
                 THEN pc' = "done" /\ res' = TranscriptReply(<<>>)
                 ELSE pc' = "loop" /\ res' = None
       /\ (pc \in {"loop", "merge"}) =>
              /\ words' = words
              /\ pc' \in {"loop", "merge", "done"}
              /\ IF pc' = "done"
                 THEN /\ res' # None
                      /\ res'[1].status = 200
                      /\ res'[1].hasTranscript
                      /\ res'[1].transcript = TranscriptOf(words)
                 ELSE res' = None
      ]_vars

\* The first request has failed, the second has returned a response with
\* words in its first result, and the loop has ended.
C19_Witness ==
    /\ pc = "check"
    /\ lastError # None
    /\ finalResponse # None
    /\ WordsInFirstResult(finalResponse[1])
    /\ Len(finalResponse[1].results[1].words) = 3

\* ------------------------------------------------------------------------
\* C20 The plain handler requests WEBM_OPUS, OGG_OPUS, LINEAR16 and FLAC in
\*     that order; the first request that succeeds ends the loop and no
\*     request follows it; the 'transcript' event is emitted exactly once
\*     when a request has succeeded and never when all four have failed;
\*     then the answer carries the status of the last failure, or 500 when
\*     that failure has no HTTP response.
\* ------------------------------------------------------------------------

\* The requests sent are the first encodings of the list, in order.
PlainOrder ==
    /\ plainAudioConfigs = <<"WEBM_OPUS", "OGG_OPUS", "LINEAR16", "FLAC">>
    /\ posted' = SubSeq(plainAudioConfigs, 1, Len(posted'))
    /\ Len(posted') \in {Len(posted), Len(posted) + 1}

\* The step from the current state is the success of the request in flight.
PlainSuccessNow == plainPc = "awaiting" /\ plainResponse' # None

\* A success ends the loop with no further request.
PlainStopsAtSuccess ==
    PlainSuccessNow => (plainPc' = "done" /\ posted' = posted)

\* The event is emitted once on a success, and at no other step.
PlainEmitsOnceOnSuccess ==
    /\ PlainSuccessNow => (emitted = <<>> /\ Len(emitted') = 1)
    /\ ~PlainSuccessNow => emitted' = emitted

\* When the handler ends without a success of any request, all four have
\* failed, nothing is emitted and the status is that of the last failure.
PlainFailureStatus ==
    (plainPc = "awaiting" /\ plainPc' = "done" /\ ~PlainSuccessNow) =>
        /\ posted = plainAudioConfigs
        /\ emitted' = <<>>
        /\ plainLastError' # None
        /\ plainRes' # None
        /\ plainRes'[1].status = IF plainLastError'[1].hasResponse
                                 THEN plainLastError'[1].status ELSE 500

C20_PlainFallback ==
    [][/\ PlainOrder
       /\ PlainStopsAtSuccess
       /\ PlainEmitsOnceOnSuccess
       /\ PlainFailureStatus]_vars

\* What the code does: the event is emitted once when the response that
\* ended the loop has alternatives[0] in every result, and not at all when
\* a result has none.
PlainEmitsUnlessNoAlternative ==
    [][/\ PlainOrder
       /\ PlainStopsAtSuccess
       /\ PlainFailureStatus
       /\ ~PlainSuccessNow => emitted' = emitted
       /\ PlainSuccessNow =>
              LET r == plainResponse'[1]
              IN  IF r.hasResults
                     /\ \E k \in 1..Len(r.results) : ~r.results[k].hasAlternative
                  THEN emitted' = <<>> /\ plainRes'[1].status = 500
                  ELSE Len(emitted') = 1 /\ plainRes'[1].status = 200]_vars

\* ------------------------------------------------------------------------
\* C16 Two requests in flight together, interleaved in any way at their
\*     awaits, are each answered what the same request, receiving the same
\*     upstream outcomes, is answered when it runs alone.
\* ------------------------------------------------------------------------

RECURSIVE AloneLoop(_, _, _, _)
\* The fallback loop of a lone invocation over the outcomes from the k-th
\* on, and the code after it.
AloneLoop(outcomes, k, response, error) ==
    IF k > Len(outcomes) \/ k > Len(audioConfigs) THEN ReplyFor(response, error)
    ELSE IF outcomes[k].error # None
    THEN AloneLoop(outcomes, k + 1, response, outcomes[k].error)
    ELSE IF HasWords(outcomes[k].response[1])
    THEN ReplyFor(outcomes[k].response, error)
    ELSE AloneLoop(outcomes, k + 1, outcomes[k].response, error)

\* The answer to a lone request with this body that receives these outcomes.
Alone(body, outcomes) ==
    IF ~body.hasAudio THEN ErrorReply(400, "Audio content is required", "")
    ELSE IF ~apiKey THEN ErrorReply(500, "Google API key not configured", "")
    ELSE AloneLoop(outcomes, 1, None, None)

C16_AnsweredAsAlone ==
    \A q \in Requests :
        cRes[q] # None => cRes[q] = Alone(cRequest[q][1], cReceived[q])

\* Request 1 has been answered a transcript of two utterances after two
\* attempts, while request 2, which arrived before that answer, has had a
\* failure and awaits its second attempt.
C16_Witness ==
    /\ cPc[1] = "done"
    /\ Len(cReceived[1]) = 2
    /\ cRes[1] # None
    /\ cRes[1][1].hasTranscript
    /\ Len(cRes[1][1].transcript) = 2
    /\ cPc[2] = "awaiting"
    /\ cAttempt[2] = 2
    /\ cLastError[2] # None

\* ------------------------------------------------------------------------
\* C21: validation before anything is sent
\* ------------------------------------------------------------------------

\* C21: in every handler that forwards to an external API, a request that
\* lacks the body field the handler requires is answered 400, and a request
\* that passes that test while the API key is not set is answered 500; in
\* both cases the invocation is over with no upstream request sent and no
\* socket event emitted.
C21_RejectedBeforeUpstream ==
    (proxyPc # "idle" /\ (MissingField(proxyRoute, proxyBody) \/ ~proxyKey)) =>
        /\ proxyPc = "done"
        /\ proxyRes = Some(IF MissingField(proxyRoute, proxyBody) THEN 400 ELSE 500)
        /\ proxySent = 0
        /\ proxyEmitted = 0

\* A complete /transcribe request made without the key was answered 500.
C21_Witness ==
    /\ proxyPc = "done"
    /\ proxyRoute = "speech/transcribe"
    /\ ~MissingField(proxyRoute, proxyBody)
    /\ ~proxyKey
    /\ proxyRes = Some(500)
    /\ proxySent = 0

\* ------------------------------------------------------------------------
\* C22: /detect-language
\* ------------------------------------------------------------------------

\* The position in detectReceived of the earliest response of the highest
\* confidence, 0 when no response carried a confidence above 0.
EarliestHighest ==
    IF \E k \in 1..Len(detectReceived) : detectReceived[k][2] > 0
    THEN CHOOSE k \in 1..Len(detectReceived) :
            /\ \A j \in 1..Len(detectReceived) :
                  detectReceived[j][2] <= detectReceived[k][2]
            /\ \A j \in 1..(k - 1) : detectReceived[j][2] < detectReceived[k][2]
    ELSE 0

\* C22 (kept language): bestLanguage and bestConfidence are those of the
\* earliest response of the strictly highest confidence received so far.
C22_KeepsHighest ==
    IF EarliestHighest = 0
    THEN bestLanguage = None /\ bestConfidence = 0
    ELSE /\ bestLanguage = Some(detectReceived[EarliestHighest][1])
         /\ bestConfidence = detectReceived[EarliestHighest][2]

\* C22 (answer): the answer carries the kept language exactly when the best
\* confidence exceeds 0.3, and is otherwise 200 with 'en-US', 0 and ''.
C22_AnswerThreshold ==
    detectPc = "done" =>
        /\ detectRes # None
        /\ detectRes[1].status = 200
        /\ IF bestConfidence > AcceptConfidence
           THEN /\ detectRes[1].language = bestLanguage[1]
                /\ detectRes[1].confidence = bestConfidence
           ELSE /\ detectRes[1].language = "en-US"
                /\ detectRes[1].confidence = 0
                /\ detectRes[1].transcript = ""

\* C22 (as stated, no further request): once the best confidence exceeds
\* 0.7 the handler sends no further upstream request.
C22_NoRequestOnceHigh ==
    [][bestConfidence > HighConfidence => detectSent' = detectSent]_vars

\* ------------------------------------------------------------------------
\* C24: connectDb keeps trying
\* ------------------------------------------------------------------------

\* An attempt is scheduled or on its way to dbPool.connect().
AttemptPending ==
    connectTimers > 0 \/ connectPc \in {"closing", "connecting"}

Arrives(q) == reqPc[q] = "idle" /\ reqPc'[q] # "idle"

\* C23: a request to /api/signup, /api/login or /api/get-doctor-acs-id that
\* arrives while isConnected is false or dbPool is null is answered 503 by
\* checkDbConnection and its handler never runs: it issues no query, creates
\* no ACS identity and writes no row, in the step of its arrival and ever after.
C23_Gate503 ==
    /\ [][\A q \in Requests :
            (Arrives(q) /\ (~isConnected \/ dbPool = None)) =>
                /\ reqRes'[q] = Unavailable
                /\ reqPc'[q] = "done"
                /\ reqQueries'[q] = 0
                /\ users' = users
                /\ acsIdentities' = acsIdentities]_vars
    /\ [](\A q \in Requests :
            (reqRes[q] = Unavailable) =>
                /\ reqPc[q] = "done"
                /\ reqQueries[q] = 0
                /\ reqAcsUserId[q] = None
                /\ reqError[q] = None)

\* A signup that arrived while the pool existed but was not connected was
\* answered 503.
C23_Witness ==
    \E q \in Requests :
        /\ reqRoute[q] = "signup"
        /\ reqRes[q] = Unavailable
        /\ SignupValidation(reqBody[q]) = None
        /\ ~isConnected
        /\ dbPool # None

\* ------------------------------------------------------------------------
\* C25: concurrent signups
\* ------------------------------------------------------------------------

\* The users table holds at most one row per email.
C25_UniqueEmails ==
    \A j, k \in 1..Len(users) : users[j].email = users[k].email => j = k

\* The signup q is over, was let in and passed validation, met no failure of
\* the database connection or of the identity service, and its email was
\* registered by another request.
RegisteredByAnother(q) ==
    /\ reqRoute[q] = "signup"
    /\ reqPc[q] = "done"
    /\ reqRes[q] # Unavailable
    /\ SignupValidation(reqBody[q]) = None
    /\ reqError[q] \notin {Some("query"), Some("identity")}
    /\ reqRes[q][1].status # 201
    /\ RowsByEmail(reqBody[q].email[1]) # {}

\* C25 (as stated): after any interleaving of signups the users table holds
\* at most one row per email, and every signup for an email registered by
\* another request is answered 400 'Email already exists'.
C25_DuplicateAnswered400 ==
    /\ C25_UniqueEmails
    /\ \A q \in Requests :
          RegisteredByAnother(q) =>
              reqRes[q] = Reply(400, "Email already exists", None)

\* ------------------------------------------------------------------------
\* C26: login
\* ------------------------------------------------------------------------

\* The login q is over, was let in, passed validation and its query resolved.
LoginAnswered(q) ==
    /\ reqRoute[q] = "login"
    /\ reqPc[q] = "done"
    /\ reqRes[q] # Unavailable
    /\ LoginValidation(reqBody[q]) = None
    /\ reqError[q] = None

\* A row has the email and userType of the body, and the password of the
\* body verifies against its digest.
Verifies(body) ==
    \E k \in RowsByEmailAndType(body.email[1], body.userType[1]) :
        Compare(body.password[1], users[k].password)

\* C26: /api/login answers 'Login successful' only when a row with the given
\* email and userType exists and the password verifies against its digest;
\* an unknown email, a userType that differs from the row's and a wrong
\* password are all answered with the same 401 'Invalid credentials'; and no
\* step of a login changes the users table.
C26_LoginAnswers ==
    /\ [](\A q \in Requests :
            LoginAnswered(q) =>
                /\ reqRes[q] \in
                      {Reply(401, "Invalid credentials", None)}
                      \cup {Reply(200, "Login successful", Some(k)) :
                               k \in 1..Len(users)}
                /\ reqRes[q][1].status = 200 => Verifies(reqBody[q])
                /\ ~Verifies(reqBody[q]) =>
                      reqRes[q] = Reply(401, "Invalid credentials", None))
    /\ [][\A q \in Requests :
            (reqRoute[q] = "login" \/ reqRoute'[q] = "login") /\ reqPc'[q] # reqPc[q]
                => users' = users]_vars

\* A login with a wrong password for a registered email and userType was
\* answered as a login for an email without a row is.
C26_Witness ==
    \E q \in Requests :
        /\ LoginAnswered(q)
        /\ RowsByEmailAndType(reqBody[q].email[1], reqBody[q].userType[1]) # {}
        /\ ~Verifies(reqBody[q])
        /\ reqRes[q] = Reply(401, "Invalid credentials", None)
        /\ reqRes[q] = LoginAnswer(Body(FALSE, Some("nobody@x"), Some("p"),
                                        Some("patient"), FALSE, FALSE))

\* A login was answered 'Login successful'.
C26_LoggedIn ==
    \E q \in Requests : LoginAnswered(q) /\ reqRes[q][1].status = 200

====
